---- MODULE Spec2Model ----
(***************************************************************************)
(* A model of the go-blockchain node core: the chain engine (block.go),    *)
(* proof of work (proof_of_work.go), the gossip handlers (node.go), the    *)
(* transaction / UTXO ledger (transaction.go, utxo.go) and the mempool.    *)
(*                                                                         *)
(* Strings are sequences of tokens.  A token is a record [c, pre]: a plain *)
(* character has pre = <<>>; the hex text of a SHA-256 digest is the single*)
(* token [c |-> "#", pre |-> preimage], so two digests are equal exactly   *)
(* when their preimages are equal (the collision-free idealisation), and   *)
(* the leading hex nibbles of a digest are a fixed function of its         *)
(* preimage (DigestZeros).                                                 *)
(***************************************************************************)
EXTENDS Integers, Sequences, FiniteSets, TLC

VARIABLES
    Blocks,         \* Blockchain.Blocks
    chainW,         \* Blockchain.lock: the thread that has called Lock (rw.w), or "none"
    chainHeld,      \* Blockchain.lock: TRUE once that writer holds the lock
    chainReaders,   \* Blockchain.lock: the threads holding a read lock
    stack,          \* per thread: the call frames in progress, innermost last
    mine,           \* the mining tail of AddBlock on one candidate block
    UTXOs,          \* UTXOSet.UTXOs: the outputs, at most one per (TxID, Index)
    Accounts,       \* Blockchain.Accounts: address -> Account
    pool,           \* Mempool.transactions: tx hash -> Transaction
    poolW,          \* Mempool.lock: the thread that has called Lock, or "none"
    poolHeld,       \* Mempool.lock: TRUE once that writer holds the lock
    poolReaders,    \* Mempool.lock: the threads holding a read lock
    ret,            \* per thread: what its last finished call returned
    lastValidate    \* the last Transaction.Validate: the ledger before and after it

vars == <<Blocks, chainW, chainHeld, chainReaders, stack, mine,
          UTXOs, Accounts, pool, poolW, poolHeld, poolReaders, ret, lastValidate>>

chainVars  == <<Blocks, chainW, chainHeld, chainReaders>>
ledgerVars == <<UTXOs, Accounts, pool, poolW, poolHeld, poolReaders, lastValidate>>

(***************************************************************************)
(* Bounds of the model.                                                    *)
(***************************************************************************)
MaxChain == 2        \* longest chain a node holds or is sent
MaxNonce == 1        \* block nonces tried are 0..MaxNonce
MaxTime == 0         \* block timestamps are 0..MaxTime
MaxDifficulty == 1   \* difficulties sent by peers or mined at are 0..MaxDifficulty

Threads == {"cli", "api", "gossip"}

(***************************************************************************)
(* Strings, decimal formatting and digests.                                *)
(***************************************************************************)
Chr(c) == [c |-> c, pre |-> <<>>]

Str(cs) == [i \in 1..Len(cs) |-> Chr(cs[i])]

DigitChars == <<"0", "1", "2", "3", "4", "5", "6", "7", "8", "9">>

RECURSIVE ItoaNat(_)
ItoaNat(n) ==
    IF n < 10 THEN <<Chr(DigitChars[n + 1])>>
    ELSE ItoaNat(n \div 10) \o <<Chr(DigitChars[(n % 10) + 1])>>

\* strconv.Itoa / strconv.FormatInt(.., 10) / fmt.Sprintf("%d", ..)
Itoa(n) == IF n < 0 THEN <<Chr("-")>> \o ItoaNat(0 - n) ELSE ItoaNat(n)

\* hex.EncodeToString(sha256.Sum256(record)): one digest token
Digest(record) == <<[c |-> "#", pre |-> record]>>

CharCode(c) ==
    CASE c = "0" -> 0 [] c = "1" -> 1 [] c = "2" -> 2 [] c = "3" -> 3
      [] c = "4" -> 4 [] c = "5" -> 5 [] c = "6" -> 6 [] c = "7" -> 7
      [] c = "8" -> 8 [] c = "9" -> 9 [] c = "a" -> 1 [] c = "b" -> 2
      [] c = "m" -> 3 [] OTHER -> 5

\* A stand-in for the bits of SHA-256 that decide the leading zeros: a
\* non-linear fold of the characters, so that changing one character may or
\* may not change the number of zeros.
RECURSIVE ChecksumFrom(_, _)
ChecksumFrom(s, h) ==
    IF Len(s) = 0 THEN h
    ELSE LET t == s[1]
             w == IF t.c = "#" THEN 1 + ChecksumFrom(t.pre, 1) ELSE CharCode(t.c)
         IN  ChecksumFrom(Tail(s), (h * (w + 2) + w) % 7)

Checksum(s) == ChecksumFrom(s, 1)

\* The number of leading '0' hex characters of the digest of `record`
DigestZeros(record) ==
    LET k == Checksum(record)
    IN  IF k > 2 THEN 0 ELSE IF k = 0 THEN 2 ELSE 1

RECURSIVE ZeroPrefixLen(_)
ZeroPrefixLen(s) ==
    IF Len(s) = 0 THEN 0
    ELSE IF s[1].c = "#" THEN DigestZeros(s[1].pre)
    ELSE IF s[1].c = "0" THEN 1 + ZeroPrefixLen(Tail(s))
    ELSE 0

\* strings.HasPrefix(h, strings.Repeat("0", d))
HasZeroPrefix(h, d) == d <= ZeroPrefixLen(h)

(***************************************************************************)
(* Transactions (only what block hashing needs here).                      *)
(***************************************************************************)
System == Str(<<"s", "y", "s", "t", "e", "m">>)
Alice == Str(<<"a">>)
Bob == Str(<<"b">>)
Miner == Str(<<"m">>)
EmptyStr == <<>>

Tx(sender, recipient, amount, fee, nonce) ==
    [Sender |-> sender, Recipient |-> recipient, Amount |-> amount,
     Fee |-> fee, Nonce |-> nonce]

\* Transaction.Hash
TxHash(tx) ==
    Digest(tx.Sender \o tx.Recipient \o Itoa(tx.Amount) \o Itoa(tx.Fee) \o Itoa(tx.Nonce))

(***************************************************************************)
(* Blocks.                                                                 *)
(***************************************************************************)
\* The Merkle root as Bitcoin computes it, for comparison: an unpaired last
\* element is hashed together with a copy of itself
RECURSIVE DuplicatingMerkleRoot(_)
DuplicatingMerkleRoot(hs) ==
    IF Len(hs) = 0 THEN EmptyStr
    ELSE IF Len(hs) = 1 THEN hs[1]
    ELSE LET pairs == [k \in 1..(Len(hs) \div 2) |-> Digest(hs[2 * k - 1] \o hs[2 * k])]
             odd   == IF Len(hs) % 2 = 1
                      THEN <<Digest(hs[Len(hs)] \o hs[Len(hs)])>> ELSE <<>>
         IN  DuplicatingMerkleRoot(pairs \o odd)

\* calculateMerkleRoot (the helper)
RECURSIVE calculateMerkleRoot(_)
calculateMerkleRoot(hs) ==
    IF Len(hs) = 0 THEN EmptyStr
    ELSE IF Len(hs) = 1 THEN hs[1]
    ELSE LET pairs == [k \in 1..(Len(hs) \div 2) |-> Digest(hs[2 * k - 1] \o hs[2 * k])]
             odd   == IF Len(hs) % 2 = 1 THEN <<Digest(hs[Len(hs)])>> ELSE <<>>
         IN  calculateMerkleRoot(pairs \o odd)

\* Block.calculateMerkleRoot
BlockMerkleRoot(b) ==
    calculateMerkleRoot([i \in 1..Len(b.Transactions) |-> TxHash(b.Transactions[i])])

\* The record both hash functions digest, for a given nonce.
BlockRecord(b, nonce) ==
    Itoa(b.Index) \o Itoa(b.Timestamp) \o b.PreviousHash \o BlockMerkleRoot(b)
        \o Itoa(nonce) \o Itoa(b.Difficulty)

\* Block.calculateHash
calculateHash(b) == Digest(BlockRecord(b, b.Nonce))

\* ProofOfWork.calculateHash (pow.Difficulty is the block's Difficulty)
PowCalculateHash(b, nonce) == Digest(BlockRecord(b, nonce))

\* ProofOfWork.Validate
Validate(b) == HasZeroPrefix(PowCalculateHash(b, b.Nonce), b.Difficulty)

\* NewBlock, with the time it reads as an input
NewBlock(transactions, previousHash, difficulty, now) ==
    LET b == [Index |-> 0, Timestamp |-> now, PreviousHash |-> previousHash,
              Hash |-> EmptyStr, Transactions |-> transactions, Nonce |-> 0,
              Difficulty |-> difficulty]
    IN  [b EXCEPT !.Hash = calculateHash(b)]

\* Blockchain.IsValidNewBlock
IsValidNewBlock(newBlock, previousBlock) ==
    /\ previousBlock.Index + 1 = newBlock.Index
    /\ previousBlock.Hash = newBlock.PreviousHash
    /\ Validate(newBlock)
    /\ calculateHash(newBlock) = newBlock.Hash

\* Blockchain.IsValidChain
IsValidChain(blocks) ==
    \A i \in 2..Len(blocks) : IsValidNewBlock(blocks[i], blocks[i - 1])

Tip == Blocks[Len(Blocks)]

\* Blockchain.AdjustDifficulty, on a given block list
AdjustmentInterval == 10

\* AdjustDifficulty lowering the difficulty of a slow window without a floor
AdjustDifficultyUnfloored(blocks) ==
    IF Len(blocks) % AdjustmentInterval # 0 THEN blocks[Len(blocks)].Difficulty
    ELSE LET lastAdjustmentBlock == blocks[Len(blocks) - AdjustmentInterval + 1]
             expectedTime == AdjustmentInterval * 10 * 60
             actualTime == blocks[Len(blocks)].Timestamp - lastAdjustmentBlock.Timestamp
         IN  IF actualTime < expectedTime \div 2 THEN lastAdjustmentBlock.Difficulty + 1
             ELSE IF actualTime > expectedTime * 2 THEN lastAdjustmentBlock.Difficulty - 1
             ELSE lastAdjustmentBlock.Difficulty

AdjustDifficulty(blocks) ==
    IF Len(blocks) % AdjustmentInterval # 0 THEN blocks[Len(blocks)].Difficulty
    ELSE LET lastAdjustmentBlock == blocks[Len(blocks) - AdjustmentInterval + 1]
             expectedTime == AdjustmentInterval * 10 * 60
             actualTime == blocks[Len(blocks)].Timestamp - lastAdjustmentBlock.Timestamp
         IN  IF actualTime < expectedTime \div 2 THEN lastAdjustmentBlock.Difficulty + 1
             ELSE IF actualTime > expectedTime * 2 /\ lastAdjustmentBlock.Difficulty > 1
                  THEN lastAdjustmentBlock.Difficulty - 1
             ELSE lastAdjustmentBlock.Difficulty

BlockReward == 50

\* NewBlockchain: the genesis block, built at time `now`
GenesisBlock(now) == NewBlock(<<>>, Str(<<"0">>), 1, now)

(***************************************************************************)
(* Threads, call frames and the two reader/writer locks.                   *)
(*                                                                         *)
(* sync.RWMutex: Lock first takes the writer mutex (chainW), which stops   *)
(* new readers, and then waits until no reader is left (chainHeld).  RLock *)
(* waits while any writer holds or waits for the lock.  Neither knows which*)
(* goroutine holds the lock: nothing is reentrant.                         *)
(***************************************************************************)
Frame(fn, at, arg) == [fn |-> fn, at |-> at, arg |-> arg]

Idle(t) == stack[t] = <<>>
Top(t) == stack[t][Len(stack[t])]
InFrame(t, fn, at) == ~Idle(t) /\ Top(t).fn = fn /\ Top(t).at = at
SetTop(t, at) == [stack EXCEPT ![t][Len(stack[t])].at = at]
Push(t, f) == [stack EXCEPT ![t] = Append(@, f)]
PushFrom(t, at, f) == [stack EXCEPT ![t] = Append([@ EXCEPT ![Len(@)].at = at], f)]
\* Return from the innermost frame; a caller's frame resumes after the call.
Pop(t) ==
    [stack EXCEPT ![t] =
        LET rest == SubSeq(@, 1, Len(@) - 1)
        IN  IF rest = <<>> THEN rest
            ELSE [rest EXCEPT ![Len(rest)].at = "resumed"]]

Return(t, fn, val) == [ret EXCEPT ![t] = [fn |-> fn, val |-> val, txs |-> <<>>]]
ReturnTxs(t, fn, txs) == [ret EXCEPT ![t] = [fn |-> fn, val |-> "list", txs |-> txs]]

\* The functions that take Blockchain.lock for writing on entry ...
ChainWriterFns == {"AddBlock", "AddBlockPoS", "handleNewBlock", "handleResponseBlockchain"}
\* ... and those that take it for reading on entry.
ChainReaderFns == {"AdjustDifficulty", "GetBlockReward", "SelectProposer", "SelectMinerAddress"}

\* bc.lock.Lock(), first half: take the writer mutex
ChainLock(t) ==
    /\ ~Idle(t) /\ Top(t).fn \in ChainWriterFns /\ Top(t).at = "Lock"
    /\ chainW = "none"
    /\ chainW' = t
    /\ stack' = SetTop(t, "LockWait")
    /\ UNCHANGED <<Blocks, chainHeld, chainReaders, mine, ret>>
    /\ UNCHANGED ledgerVars

\* bc.lock.Lock(), second half: the readers have drained
ChainLockAcquire(t) ==
    /\ ~Idle(t) /\ Top(t).fn \in ChainWriterFns /\ Top(t).at = "LockWait"
    /\ chainW = t /\ chainReaders = {}
    /\ chainHeld' = TRUE
    /\ stack' = SetTop(t, "locked")
    /\ UNCHANGED <<Blocks, chainW, chainReaders, mine, ret>>
    /\ UNCHANGED ledgerVars

\* bc.lock.RLock() at the head of a reader function
ChainRLock(t) ==
    /\ ~Idle(t) /\ Top(t).fn \in ChainReaderFns /\ Top(t).at = "RLock"
    /\ chainW = "none"
    /\ chainReaders' = chainReaders \cup {t}
    /\ stack' = SetTop(t, "body")
    /\ UNCHANGED <<Blocks, chainW, chainHeld, mine, ret>>
    /\ UNCHANGED ledgerVars

Perms(S) == {f \in [1..Cardinality(S) -> S] : \A x \in S : \E i \in DOMAIN f : f[i] = x}

\* The body of a reader function and its deferred RUnlock
ChainReaderReturn(t) ==
    /\ ~Idle(t) /\ Top(t).fn \in ChainReaderFns /\ Top(t).at = "body"
    /\ chainReaders' = chainReaders \ {t}
    /\ stack' = Pop(t)
    /\ UNCHANGED <<Blocks, chainW, chainHeld, mine, ret>>
    /\ UNCHANGED ledgerVars

(***************************************************************************)
(* Calls into the chain engine.                                            *)
(***************************************************************************)
Callers == {"cli", "api"}

\* What a caller passes to AddBlock / AddBlockPoS
CandidateLists == {<<>>, <<Tx(Alice, Bob, 30, 1, 1)>>}

\* AddBlock is entered: bc.lock.Lock() is next
CallAddBlock(t) ==
    /\ t \in Callers /\ Idle(t)
    /\ \E txs \in CandidateLists : stack' = Push(t, Frame("AddBlock", "Lock", txs))
    /\ UNCHANGED <<mine, ret>>
    /\ UNCHANGED chainVars
    /\ UNCHANGED ledgerVars

\* AddBlockPoS is entered: bc.lock.Lock() is next
CallAddBlockPoS(t) ==
    /\ t \in Callers /\ Idle(t)
    /\ \E txs \in CandidateLists : stack' = Push(t, Frame("AddBlockPoS", "Lock", txs))
    /\ UNCHANGED <<mine, ret>>
    /\ UNCHANGED chainVars
    /\ UNCHANGED ledgerVars

\* One of the read-locked getters is called on its own
CallReader(t) ==
    /\ t \in Callers /\ Idle(t)
    /\ \E fn \in ChainReaderFns : stack' = Push(t, Frame(fn, "RLock", <<>>))
    /\ UNCHANGED <<mine, ret>>
    /\ UNCHANGED chainVars
    /\ UNCHANGED ledgerVars

\* AddBlock, holding the write lock: difficulty := bc.AdjustDifficulty()
AddBlockAdjust(t) ==
    /\ InFrame(t, "AddBlock", "locked")
    /\ stack' = PushFrom(t, "AdjustDifficulty", Frame("AdjustDifficulty", "RLock", <<>>))
    /\ UNCHANGED <<mine, ret>>
    /\ UNCHANGED chainVars
    /\ UNCHANGED ledgerVars

\* AddBlockPoS, holding the write lock: proposer := bc.SelectProposer()
AddBlockPoSSelect(t) ==
    /\ InFrame(t, "AddBlockPoS", "locked")
    /\ stack' = PushFrom(t, "SelectProposer", Frame("SelectProposer", "RLock", <<>>))
    /\ UNCHANGED <<mine, ret>>
    /\ UNCHANGED chainVars
    /\ UNCHANGED ledgerVars

(***************************************************************************)
(* The gossip handlers (one message at a time: processMessageQueue).       *)
(***************************************************************************)
Bogus == Str(<<"0">>)

PeerTxLists == {<<>>, <<Tx(System, Miner, BlockReward, 0, 0)>>}

\* The blocks a peer may send to follow `prev`: any mix of right and wrong fields.
PeerBlocks(prev) ==
    UNION {
        LET b == [Index |-> idx, Timestamp |-> ts, PreviousHash |-> ph, Hash |-> EmptyStr,
                  Transactions |-> txs, Nonce |-> n, Difficulty |-> d]
        IN  {[b EXCEPT !.Hash = calculateHash(b)], [b EXCEPT !.Hash = Bogus]}
        : idx \in {prev.Index + 1, prev.Index}, ts \in 0..MaxTime,
          ph \in {prev.Hash, Bogus}, txs \in PeerTxLists,
          n \in 0..MaxNonce, d \in 0..MaxDifficulty}

\* The first block of a chain a peer may send: the index and the hash are the peer's.
PeerFirstBlocks ==
    UNION {
        LET b == [NewBlock(<<>>, Str(<<"0">>), 1, ts) EXCEPT !.Index = idx]
        IN  {[b EXCEPT !.Hash = calculateHash(b)], [b EXCEPT !.Hash = Bogus]}
        : idx \in 0..1, ts \in 0..MaxTime}

\* The blocks that follow inside a chain a peer sends.
PeerNextBlocks(prev) ==
    UNION {
        LET b == [Index |-> idx, Timestamp |-> prev.Timestamp, PreviousHash |-> ph,
                  Hash |-> EmptyStr, Transactions |-> <<>>, Nonce |-> n, Difficulty |-> d]
        IN  {[b EXCEPT !.Hash = calculateHash(b)], [b EXCEPT !.Hash = Bogus]}
        : idx \in {prev.Index + 1, prev.Index}, ph \in {prev.Hash, Bogus},
          n \in 0..MaxNonce, d \in 0..MaxDifficulty}

RECURSIVE PeerChainsOfLen(_)
PeerChainsOfLen(n) ==
    IF n = 1 THEN {<<b>> : b \in PeerFirstBlocks}
    ELSE UNION {{Append(c, b) : b \in PeerNextBlocks(c[Len(c)])} : c \in PeerChainsOfLen(n - 1)}

PeerChains(maxLen) == UNION {PeerChainsOfLen(n) : n \in 1..maxLen}

\* n.Peers
KnownPeers == {"peer1", "peer2"}

\* broadcastToPeers: the message a goroutine is started with for each peer
broadcastToPeers(msgType, payload) ==
    [peer \in KnownPeers |-> [Type |-> msgType, Payload |-> payload]]

\* handleNewBlock without the check against the tip
HandleNewBlockUnchecked ==
    /\ Idle("gossip") /\ Len(Blocks) < MaxChain
    /\ \E block \in PeerBlocks(Tip) :
          /\ stack' = Push("gossip", Frame("handleNewBlock", "Lock", block))
          /\ ret' = ret
    /\ UNCHANGED mine
    /\ UNCHANGED chainVars
    /\ UNCHANGED ledgerVars

\* handleNewBlock: the check against the tip, made before the lock is taken
HandleNewBlock ==
    /\ Idle("gossip") /\ Len(Blocks) < MaxChain
    /\ \E block \in PeerBlocks(Tip) :
          IF IsValidNewBlock(block, Tip)
          THEN /\ stack' = Push("gossip", Frame("handleNewBlock", "Lock", block))
               /\ ret' = ret
          ELSE /\ ret' = Return("gossip", "handleNewBlock", "dropped")
               /\ stack' = stack
    /\ UNCHANGED mine
    /\ UNCHANGED chainVars
    /\ UNCHANGED ledgerVars

\* handleNewBlock, holding the write lock: append, Unlock, and the broadcast
\* of the payload (here: the block it decodes to)
HandleNewBlockAppend ==
    /\ InFrame("gossip", "handleNewBlock", "locked")
    /\ Blocks' = Append(Blocks, Top("gossip").arg)
    /\ chainW' = "none" /\ chainHeld' = FALSE
    /\ stack' = Pop("gossip")
    /\ ret' = [ret EXCEPT !["gossip"] =
                  [fn |-> "handleNewBlock", val |-> "appended", txs |-> <<>>,
                   sent |-> broadcastToPeers("NewBlock", Top("gossip").arg)]]
    /\ UNCHANGED <<chainReaders, mine>>
    /\ UNCHANGED ledgerVars

\* handleResponseBlockchain with the length test weakened to "not shorter"
HandleResponseBlockchainNotShorter ==
    /\ Idle("gossip")
    /\ \E received \in PeerChains(MaxChain) :
          IF Len(received) >= Len(Blocks) /\ IsValidChain(received)
          THEN /\ stack' = Push("gossip", Frame("handleResponseBlockchain", "Lock", received))
               /\ ret' = ret
          ELSE /\ ret' = Return("gossip", "handleResponseBlockchain", "dropped")
               /\ stack' = stack
    /\ UNCHANGED mine
    /\ UNCHANGED chainVars
    /\ UNCHANGED ledgerVars

\* handleResponseBlockchain: the length and validity check, made before the lock
HandleResponseBlockchain ==
    /\ Idle("gossip")
    /\ \E received \in PeerChains(MaxChain) :
          IF Len(received) > Len(Blocks) /\ IsValidChain(received)
          THEN /\ stack' = Push("gossip", Frame("handleResponseBlockchain", "Lock", received))
               /\ ret' = ret
          ELSE /\ ret' = Return("gossip", "handleResponseBlockchain", "dropped")
               /\ stack' = stack
    /\ UNCHANGED mine
    /\ UNCHANGED chainVars
    /\ UNCHANGED ledgerVars

\* handleResponseBlockchain, holding the write lock: replace the chain, Unlock
HandleResponseBlockchainReplace ==
    /\ InFrame("gossip", "handleResponseBlockchain", "locked")
    /\ Blocks' = Top("gossip").arg
    /\ chainW' = "none" /\ chainHeld' = FALSE
    /\ stack' = Pop("gossip")
    /\ ret' = Return("gossip", "handleResponseBlockchain", "replaced")
    /\ UNCHANGED <<chainReaders, mine>>
    /\ UNCHANGED ledgerVars

(***************************************************************************)
(* The chain engine and the gossip handlers: specification Spec.           *)
(***************************************************************************)
NoRet == [fn |-> "none", val |-> "none", txs |-> <<>>]
NoMine == [stage |-> "none"]
NoValidate == [ok |-> FALSE]
EmptyMap == <<>>

\* NewBlockchain, NewMempool, NewUTXOSet
LedgerFresh ==
    /\ UTXOs = {} /\ Accounts = EmptyMap /\ pool = EmptyMap
    /\ poolW = "none" /\ poolHeld = FALSE /\ poolReaders = {}
    /\ lastValidate = NoValidate

Init ==
    /\ \E now \in 0..MaxTime : Blocks = <<GenesisBlock(now)>>
    /\ chainW = "none" /\ chainHeld = FALSE /\ chainReaders = {}
    /\ stack = [t \in Threads |-> <<>>]
    /\ ret = [t \in Threads |-> NoRet]
    /\ mine = NoMine
    /\ LedgerFresh

\* The steps a thread takes by itself once a call is under way
ChainStep(t) ==
    \/ ChainLock(t)
    \/ ChainLockAcquire(t)
    \/ ChainRLock(t)
    \/ ChainReaderReturn(t)
    \/ AddBlockAdjust(t)
    \/ AddBlockPoSSelect(t)
    \/ (t = "gossip" /\ HandleNewBlockAppend)
    \/ (t = "gossip" /\ HandleResponseBlockchainReplace)

Next ==
    \/ \E t \in Threads : CallAddBlock(t)
    \/ \E t \in Threads : CallAddBlockPoS(t)
    \/ \E t \in Threads : CallReader(t)
    \/ HandleNewBlock
    \/ HandleResponseBlockchain
    \/ \E t \in Threads : ChainStep(t)

Spec == Init /\ [][Next]_vars

\* Go schedules every goroutine that can run; calls and messages may never come.
FairSpec == Spec /\ \A t \in Threads : WF_vars(ChainStep(t))

(***************************************************************************)
(* The mining tail of AddBlock, from NewBlock to the append, as it runs    *)
(* once difficulty, miner and reward are known: specification MineSpec.    *)
(***************************************************************************)
MaxMineNonce == 3    \* nonces the proof-of-work search tries are 0..MaxMineNonce
MaxMineTime == 2     \* the clock reads 0..MaxMineTime

\* The reward transaction AddBlock puts first
RewardTx(minerAddress, reward) == Tx(System, minerAddress, reward, 0, 0)

\* newBlock := NewBlock(validTransactions, lastBlock.Hash, difficulty);
\* validTransactions is the reward followed by the candidates that passed
\* IsValidTransaction (here: none or one).
MineNewBlock ==
    /\ mine.stage = "none"
    /\ \E txs \in CandidateLists, minerAddress \in {EmptyStr, Miner}, now \in 0..MaxMineTime :
          /\ Tip.Timestamp <= now
          /\ mine' = [stage |-> "candidate",
                      block |-> NewBlock(<<RewardTx(minerAddress, BlockReward)>> \o txs,
                                         Tip.Hash, AdjustDifficulty(Blocks), now)]
    /\ UNCHANGED <<stack, ret>>
    /\ UNCHANGED chainVars
    /\ UNCHANGED ledgerVars

\* pow.Run() finds a nonce whose hash has the prefix: any worker may be first
MineRun ==
    /\ mine.stage = "candidate"
    /\ \E nonce \in 0..MaxMineNonce :
          /\ HasZeroPrefix(PowCalculateHash(mine.block, nonce), mine.block.Difficulty)
          /\ mine' = [stage |-> "found", block |-> mine.block, nonce |-> nonce,
                      hash |-> PowCalculateHash(mine.block, nonce)]
    /\ UNCHANGED <<stack, ret>>
    /\ UNCHANGED chainVars
    /\ UNCHANGED ledgerVars

\* pow.Run() reaches its timeout first: AddBlock returns nil
MineTimeout ==
    /\ mine.stage = "candidate"
    /\ mine' = [stage |-> "timeout", block |-> mine.block]
    /\ UNCHANGED <<stack, ret>>
    /\ UNCHANGED chainVars
    /\ UNCHANGED ledgerVars

\* newBlock.Hash = hash; newBlock.Nonce = nonce; newBlock.Index = len(bc.Blocks)
MineStore ==
    /\ mine.stage = "found"
    /\ mine' = [stage |-> "stored",
                block |-> [mine.block EXCEPT !.Hash = mine.hash, !.Nonce = mine.nonce,
                                             !.Index = Len(Blocks)]]
    /\ UNCHANGED <<stack, ret>>
    /\ UNCHANGED chainVars
    /\ UNCHANGED ledgerVars

\* The end of AddBlock appending the mined block without testing it
MineValidateUntested ==
    /\ mine.stage = "stored"
    /\ Blocks' = Append(Blocks, mine.block)
    /\ mine' = [stage |-> "appended", block |-> mine.block]
    /\ UNCHANGED <<chainW, chainHeld, chainReaders, stack, ret>>
    /\ UNCHANGED ledgerVars

\* if bc.IsValidNewBlock(newBlock, lastBlock) { append; return newBlock }; return nil
MineValidate ==
    /\ mine.stage = "stored"
    /\ IF IsValidNewBlock(mine.block, Tip)
       THEN /\ Blocks' = Append(Blocks, mine.block)
            /\ mine' = [stage |-> "appended", block |-> mine.block]
       ELSE /\ Blocks' = Blocks
            /\ mine' = [stage |-> "rejected", block |-> mine.block]
    /\ UNCHANGED <<chainW, chainHeld, chainReaders, stack, ret>>
    /\ UNCHANGED ledgerVars

MineInit ==
    /\ \E now \in 0..MaxMineTime : Blocks = <<GenesisBlock(now)>>
    /\ chainW = "none" /\ chainHeld = FALSE /\ chainReaders = {}
    /\ stack = [t \in Threads |-> <<>>]
    /\ ret = [t \in Threads |-> NoRet]
    /\ mine = NoMine
    /\ LedgerFresh

MineNext ==
    \/ MineNewBlock
    \/ MineRun
    \/ MineTimeout
    \/ MineStore
    \/ MineValidate

MineSpec == MineInit /\ [][MineNext]_vars

(***************************************************************************)
(* The UTXO ledger, the accounts and Transaction.Validate.                 *)
(***************************************************************************)
UTXO(txid, index, amount, owner) ==
    [TxID |-> txid, Index |-> index, Amount |-> amount, Owner |-> owner]

\* The two keys of the nested map UTXOs[TxID][Index]
SameOutput(u, v) == u.TxID = v.TxID /\ u.Index = v.Index

RECURSIVE SumAmounts(_)
SumAmounts(S) ==
    IF S = {} THEN 0
    ELSE LET u == CHOOSE x \in S : TRUE IN u.Amount + SumAmounts(S \ {u})

Owned(utxos, owner) == {u \in utxos : u.Owner = owner}

\* UTXOSet.GetBalance
GetBalance(utxos, owner) == SumAmounts(Owned(utxos, owner))

\* UTXOSet.HasUTXO
HasUTXO(utxos, owner) == Owned(utxos, owner) # {}

\* UTXOSet.FindUTXOs: the owner's outputs in map order until `amount` is
\* covered; every map order is possible, so this is the set of possible results
FindUTXOs(utxos, owner, amount) ==
    LET own == Owned(utxos, owner)
    IN  IF own = {} \/ SumAmounts(own) < amount THEN {own}
        ELSE {S \in SUBSET own :
                /\ S # {}
                /\ SumAmounts(S) >= amount
                /\ \E u \in S : S = {u} \/ SumAmounts(S \ {u}) < amount}

\* UTXOSet.SpendUTXOs
SpendUTXOs(utxos, spent) == {x \in utxos : ~\E s \in spent : SameOutput(x, s)}

\* UTXOSet.AddUTXO: u.UTXOs[utxo.TxID][utxo.Index] = utxo
AddUTXO(utxos, u) == {x \in utxos : ~SameOutput(x, u)} \cup {u}

\* Transaction.validateAccounts: the error, or "nil"
validateAccounts(tx, accounts) ==
    IF tx.Sender \notin DOMAIN accounts THEN "sender account does not exist"
    ELSE IF accounts[tx.Sender].Balance < tx.Amount + tx.Fee THEN "insufficient balance"
    ELSE "nil"

\* Transaction.ValidateUTXO: the possible (error, UTXO set afterwards)
ValidateUTXO(tx, utxos) ==
    {LET total == SumAmounts(S)
         change == total - (tx.Amount + tx.Fee)
         spent == SpendUTXOs(utxos, S)
         paid == AddUTXO(spent, UTXO(TxHash(tx), 0, tx.Amount, tx.Recipient))
     IN  IF total < tx.Amount + tx.Fee
         THEN [err |-> "insufficient UTXOs", utxos |-> utxos]
         ELSE [err |-> "nil",
               utxos |-> IF change > 0
                         THEN AddUTXO(paid, UTXO(TxHash(tx), 1, change, tx.Sender))
                         ELSE paid]
     : S \in FindUTXOs(utxos, tx.Sender, tx.Amount + tx.Fee)}

\* Transaction.Validate
TxValidate(tx, accounts, utxos) ==
    IF validateAccounts(tx, accounts) # "nil"
    THEN {[err |-> validateAccounts(tx, accounts), utxos |-> utxos]}
    ELSE ValidateUTXO(tx, utxos)

\* The TxID handleMineBlock gives the miner's first, empty output ("genesis")
GenesisTxID == Str(<<"g">>)

\* Transaction.DistributeFees
DistributeFees(utxos, tx, minerAddress) ==
    AddUTXO(utxos, UTXO(TxHash(tx), 2, tx.Fee, minerAddress))

\* What the last Validate did, kept to state its effect
Validated(tx, before, outcome) ==
    [ok |-> outcome.err = "nil", tx |-> tx, before |-> before, after |-> outcome.utxos]

(***************************************************************************)
(* The mempool map and its sorted listing.                                 *)
(***************************************************************************)
MapPut(m, k, v) == [x \in DOMAIN m \cup {k} |-> IF x = k THEN v ELSE m[x]]

\* Where sort.SliceStable puts one more element: behind every element whose
\* fee is not smaller
InsertByFee(sorted, tx) ==
    LET k == Cardinality({i \in 1..Len(sorted) : sorted[i].Fee >= tx.Fee})
    IN  SubSeq(sorted, 1, k) \o <<tx>> \o SubSeq(sorted, k + 1, Len(sorted))

\* Mempool.sortTransactionsByFee
RECURSIVE sortTransactionsByFee(_)
sortTransactionsByFee(txs) ==
    IF Len(txs) = 0 THEN <<>>
    ELSE InsertByFee(sortTransactionsByFee(SubSeq(txs, 1, Len(txs) - 1)), txs[Len(txs)])

\* Mempool.GetTransactions: the map read in some order, then sorted
GetTransactionsResults(m) ==
    {sortTransactionsByFee([i \in 1..Len(order) |-> m[order[i]]]) : order \in Perms(DOMAIN m)}

(***************************************************************************)
(* The mempool under its lock, the handlers that admit transactions and    *)
(* the MINE command: specification LedgerSpec.                             *)
(***************************************************************************)
lockVars == <<poolW, poolHeld, poolReaders>>

\* The functions that take Mempool.lock for writing on entry ...
PoolWriterFns == {"AddTransaction", "clearMinedTransactions", "RemoveTransaction"}
\* ... and the one that takes it for reading on entry.
PoolReaderFns == {"GetTransactions"}

\* m.lock.Lock(), first half: take the writer mutex
PoolLock(t) ==
    /\ ~Idle(t) /\ Top(t).fn \in PoolWriterFns /\ Top(t).at = "Lock"
    /\ poolW = "none"
    /\ poolW' = t
    /\ stack' = SetTop(t, "LockWait")
    /\ UNCHANGED <<UTXOs, Accounts, pool, poolHeld, poolReaders, lastValidate, mine, ret>>
    /\ UNCHANGED chainVars

\* m.lock.Lock(), second half: the readers have drained
PoolLockAcquire(t) ==
    /\ ~Idle(t) /\ Top(t).fn \in PoolWriterFns /\ Top(t).at = "LockWait"
    /\ poolW = t /\ poolReaders = {}
    /\ poolHeld' = TRUE
    /\ stack' = SetTop(t, "locked")
    /\ UNCHANGED <<UTXOs, Accounts, pool, poolW, poolReaders, lastValidate, mine, ret>>
    /\ UNCHANGED chainVars

\* m.lock.RLock() at the head of GetTransactions
PoolRLock(t) ==
    /\ ~Idle(t) /\ Top(t).fn \in PoolReaderFns /\ Top(t).at = "RLock"
    /\ poolW = "none"
    /\ poolReaders' = poolReaders \cup {t}
    /\ stack' = SetTop(t, "body")
    /\ UNCHANGED <<UTXOs, Accounts, pool, poolW, poolHeld, lastValidate, mine, ret>>
    /\ UNCHANGED chainVars

\* The body of GetTransactions and its deferred RUnlock
GetTransactionsReturn(t) ==
    /\ InFrame(t, "GetTransactions", "body")
    /\ poolReaders' = poolReaders \ {t}
    /\ \E txs \in GetTransactionsResults(pool) : ret' = ReturnTxs(t, "GetTransactions", txs)
    /\ stack' = Pop(t)
    /\ UNCHANGED <<UTXOs, Accounts, pool, poolW, poolHeld, lastValidate, mine>>
    /\ UNCHANGED chainVars

\* errors.New("invalid transaction: " + err.Error())
InvalidTransaction(err) ==
    CASE err = "sender account does not exist"
            -> "invalid transaction: sender account does not exist"
      [] err = "insufficient balance" -> "invalid transaction: insufficient balance"
      [] err = "insufficient UTXOs" -> "invalid transaction: insufficient UTXOs"

\* Mempool.AddTransaction, holding the write lock: Validate, the duplicate
\* check, the insertion, and then the call of m.GetTransactions()
AddTransactionValidate(t) ==
    /\ InFrame(t, "AddTransaction", "locked")
    /\ LET tx == Top(t).arg
       IN  \E o \in TxValidate(tx, Accounts, UTXOs) :
              /\ UTXOs' = o.utxos
              /\ lastValidate' = Validated(tx, UTXOs, o)
              /\ IF o.err # "nil"
                 THEN /\ ret' = Return(t, "AddTransaction", InvalidTransaction(o.err))
                      /\ poolW' = "none" /\ poolHeld' = FALSE
                      /\ stack' = Pop(t)
                      /\ pool' = pool
                 ELSE IF TxHash(tx) \in DOMAIN pool
                 THEN /\ ret' = Return(t, "AddTransaction",
                                       "transaction already exists in the mempool")
                      /\ poolW' = "none" /\ poolHeld' = FALSE
                      /\ stack' = Pop(t)
                      /\ pool' = pool
                 ELSE /\ pool' = MapPut(pool, TxHash(tx), tx)
                      /\ stack' = PushFrom(t, "GetTransactions",
                                           Frame("GetTransactions", "RLock", <<>>))
                      /\ UNCHANGED <<poolW, poolHeld, ret>>
    /\ UNCHANGED <<Accounts, poolReaders, mine>>
    /\ UNCHANGED chainVars

\* The transactions the message queue delivers, those a second caller of
\* the mempool submits ...
SubmittedTxs(t) ==
    IF t = "gossip" THEN {Tx(Alice, Bob, 30, 1, 1), Tx(Alice, Bob, 80, 1, 1)}
    ELSE {Tx(Alice, Bob, 80, 1, 2), Tx(Alice, Bob, 30, 1, 0)}
\* ... and what the CLI builds from what the user enters: no nonce is set
RequestedTxs == {Tx(Alice, Bob, 30, 1, 0), Tx(Alice, Bob, 60, 1, 0)}

\* handleTransaction, handleSendTransaction or any other caller:
\* Mempool.AddTransaction is entered
CallAddTransaction(t) ==
    /\ t \in {"gossip", "api"} /\ Idle(t)
    /\ \E tx \in SubmittedTxs(t) :
          stack' = Push(t, Frame("AddTransaction", "Lock", tx))
    /\ UNCHANGED <<UTXOs, Accounts, pool, lastValidate, mine, ret>>
    /\ UNCHANGED lockVars
    /\ UNCHANGED chainVars

\* handleCreateTransaction: the balance check, tx.Validate, and then the
\* call of tp.AddTransaction (which validates once more)
HandleCreateTransaction ==
    /\ Idle("cli")
    /\ \E tx \in RequestedTxs :
          IF GetBalance(UTXOs, tx.Sender) < tx.Amount + tx.Fee
          THEN /\ ret' = Return("cli", "handleCreateTransaction", "Insufficient balance.")
               /\ UNCHANGED <<UTXOs, lastValidate, stack>>
          ELSE \E o \in TxValidate(tx, Accounts, UTXOs) :
                  /\ UTXOs' = o.utxos
                  /\ lastValidate' = Validated(tx, UTXOs, o)
                  /\ IF o.err # "nil"
                     THEN /\ ret' = Return("cli", "handleCreateTransaction",
                                           "Transaction validation failed")
                          /\ stack' = stack
                     ELSE /\ stack' = Push("cli", Frame("AddTransaction", "Lock", tx))
                          /\ ret' = ret
    /\ UNCHANGED <<Accounts, pool, mine>>
    /\ UNCHANGED lockVars
    /\ UNCHANGED chainVars

\* A caller lists the mempool
CallGetTransactions(t) ==
    /\ t = "api" /\ Idle(t)
    /\ stack' = Push(t, Frame("GetTransactions", "RLock", <<>>))
    /\ UNCHANGED <<UTXOs, Accounts, pool, lastValidate, mine, ret>>
    /\ UNCHANGED lockVars
    /\ UNCHANGED chainVars

\* handleMineBlock up to transactions := tp.GetTransactions(); EnforceCooldown
\* and DetectSuspiciousPatterns may refuse
HandleMineBlock ==
    /\ Idle("cli")
    /\ UTXOs' = IF HasUTXO(UTXOs, Miner) THEN UTXOs
                ELSE AddUTXO(UTXOs, UTXO(GenesisTxID, 0, 0, Miner))
    /\ \E allowed \in BOOLEAN :
          IF allowed
          THEN /\ stack' = [stack EXCEPT !["cli"] =
                               <<Frame("handleMineBlock", "GetTransactions", <<>>),
                                 Frame("GetTransactions", "RLock", <<>>)>>]
               /\ ret' = ret
          ELSE /\ ret' = Return("cli", "handleMineBlock", "refused")
               /\ stack' = stack
    /\ UNCHANGED <<Accounts, pool, lastValidate, mine>>
    /\ UNCHANGED lockVars
    /\ UNCHANGED chainVars

\* handleMineBlock: newBlock := bc.AddBlock(transactions)
HandleMineBlockAddBlock ==
    /\ InFrame("cli", "handleMineBlock", "resumed")
    /\ stack' = PushFrom("cli", "AddBlock", Frame("AddBlock", "Lock", ret["cli"].txs))
    /\ UNCHANGED <<UTXOs, Accounts, pool, lastValidate, mine, ret>>
    /\ UNCHANGED lockVars
    /\ UNCHANGED chainVars

\* clearMinedTransactions as AddBlock and AddBlockPoS call it after the
\* append: the list always starts with the reward transaction
CallClearMinedTransactions(t) ==
    /\ t = "api" /\ Idle(t)
    /\ \E txs \in CandidateLists :
          stack' = Push(t, Frame("clearMinedTransactions", "Lock",
                                 <<RewardTx(Miner, BlockReward)>> \o txs))
    /\ UNCHANGED <<UTXOs, Accounts, pool, lastValidate, mine, ret>>
    /\ UNCHANGED lockVars
    /\ UNCHANGED chainVars

\* clearMinedTransactions, holding the write lock: bc.Mempool.RemoveTransaction(tx)
ClearMinedRemove(t) ==
    /\ InFrame(t, "clearMinedTransactions", "locked")
    /\ stack' = PushFrom(t, "RemoveTransaction",
                         Frame("RemoveTransaction", "Lock", Top(t).arg[1]))
    /\ UNCHANGED <<UTXOs, Accounts, pool, lastValidate, mine, ret>>
    /\ UNCHANGED lockVars
    /\ UNCHANGED chainVars

\* Alice holds 100: an account and one output, as initializeBlockchainWithGenesis
\* funds an address; Bob has an account and nothing yet
FundingTx(owner, amount) == Tx(System, owner, amount, 0, 0)

FundedAccounts ==
    [a \in {Alice, Bob} |-> [Balance |-> IF a = Alice THEN 100 ELSE 0, Nonce |-> 0]]

FundedUTXOs == {UTXO(TxHash(FundingTx(Alice, 100)), 0, 100, Alice)}

LedgerInit ==
    /\ \E now \in 0..MaxTime : Blocks = <<GenesisBlock(now)>>
    /\ chainW = "none" /\ chainHeld = FALSE /\ chainReaders = {}
    /\ stack = [t \in Threads |-> <<>>]
    /\ ret = [t \in Threads |-> NoRet]
    /\ mine = NoMine
    /\ UTXOs = FundedUTXOs /\ Accounts = FundedAccounts /\ pool = EmptyMap
    /\ poolW = "none" /\ poolHeld = FALSE /\ poolReaders = {}
    /\ lastValidate = NoValidate

\* The steps a thread takes by itself once a call is under way
LedgerStep(t) ==
    \/ PoolLock(t)
    \/ PoolLockAcquire(t)
    \/ PoolRLock(t)
    \/ GetTransactionsReturn(t)
    \/ AddTransactionValidate(t)
    \/ ClearMinedRemove(t)
    \/ (t = "cli" /\ HandleMineBlockAddBlock)
    \/ ChainLock(t)
    \/ ChainLockAcquire(t)
    \/ AddBlockAdjust(t)

LedgerNext ==
    \/ \E t \in Threads : CallAddTransaction(t)
    \/ HandleCreateTransaction
    \/ \E t \in Threads : CallGetTransactions(t)
    \/ HandleMineBlock
    \/ \E t \in Threads : CallClearMinedTransactions(t)
    \/ \E t \in Threads : LedgerStep(t)

LedgerSpec == LedgerInit /\ [][LedgerNext]_vars

\* Go schedules every goroutine that can run, and the user of the CLI goes on
\* to give the MINE command; other calls may never come.
FairLedgerSpec ==
    /\ LedgerSpec
    /\ \A t \in Threads : WF_vars(LedgerStep(t))
    /\ WF_vars(HandleMineBlock)

(***************************************************************************)
(* Claims about the chain engine.                                          *)
(***************************************************************************)

\* C1: in every reachable state every block at position i >= 1 has Index = i
\* and PreviousHash equal to the Hash of the block at position i - 1
\* (positions count from 0; Blocks[1] is position 0).
C1_IndexAndLink ==
    \A i \in 2..Len(Blocks) :
        /\ Blocks[i].Index = i - 1
        /\ Blocks[i].PreviousHash = Blocks[i - 1].Hash

\* C2: in every reachable state every block's Hash is calculateHash of the
\* block, and a block appended by AddBlock has Difficulty leading '0's.
C2_HashesMatch ==
    /\ \A i \in 1..Len(Blocks) : Blocks[i].Hash = calculateHash(Blocks[i])
    /\ mine.stage = "appended" =>
          HasZeroPrefix(Blocks[Len(Blocks)].Hash, Blocks[Len(Blocks)].Difficulty)

FreshChain == Len(Blocks) = 1 /\ Blocks[1] = GenesisBlock(Blocks[1].Timestamp)

IsRewardTx(tx) == tx.Sender = System /\ tx.Amount = BlockReward /\ tx.Fee = 0

\* C3: AddBlock([]) called on a fresh chain returns (a non-nil block, unless
\* the proof-of-work search timed out) and then the chain has exactly 2
\* blocks, block 1 with Index 1 and the reward as its only transaction.
C3_MineEmptyBlock ==
    \A t \in Callers :
        (FreshChain /\ stack[t] = <<Frame("AddBlock", "Lock", <<>>)>>)
        ~> (/\ Idle(t)
            /\ ret[t].fn = "AddBlock"
            /\ \/ ret[t].val = "timeout"
               \/ /\ ret[t].val = "block"
                  /\ Len(Blocks) = 2
                  /\ Blocks[2].Index = 1
                  /\ Len(Blocks[2].Transactions) = 1
                  /\ IsRewardTx(Blocks[2].Transactions[1]))

\* C5: a call of AddBlock or AddBlockPoS never waits for the chain lock that
\* the same call already holds (so it can return and release the write lock).
C5_NeverWaitsForOwnLock ==
    \A t \in Threads :
        ~(/\ chainW = t /\ chainHeld
          /\ ~Idle(t)
          /\ Top(t).fn \in ChainReaderFns /\ Top(t).at = "RLock"
          /\ stack[t][1].fn \in {"AddBlock", "AddBlockPoS"})

\* C4: once Run has succeeded and AddBlock has stored the nonce and the hash
\* and set Index to len(Blocks), Validate is true of the block and
\* calculateHash() equals the stored Hash (so IsValidNewBlock accepts it).
C4_StoredBlockValid ==
    mine.stage = "stored" =>
        /\ Validate(mine.block)
        /\ calculateHash(mine.block) = mine.block.Hash
        /\ IsValidNewBlock(mine.block, Tip)

(***************************************************************************)
(* Claims about the mempool and the ledger.                                *)
(***************************************************************************)

\* C6: no call of Mempool.AddTransaction or clearMinedTransactions waits for
\* the mempool lock that the same call already holds (so every such call
\* returns and releases the lock, and a later GetTransactions terminates).
C6_NeverWaitsForOwnPoolLock ==
    \A t \in Threads :
        ~(/\ poolW = t /\ poolHeld
          /\ ~Idle(t)
          /\ Top(t).fn \in {"GetTransactions", "RemoveTransaction"}
          /\ Top(t).at \in {"RLock", "Lock"}
          /\ stack[t][1].fn \in {"AddTransaction", "clearMinedTransactions"})

\* C7: with Alice holding 100, once Alice -> Bob, amount 30, fee 1, nonce 1 is
\* submitted to the mempool and the node mines, a state follows in which the
\* block is appended, Bob has 30, Alice 69, the miner at least 51, and the
\* mempool is empty.
C7_SimpleTransfer ==
    (/\ UTXOs = FundedUTXOs /\ DOMAIN pool = {}
     /\ \E t \in Threads :
           stack[t] = <<Frame("AddTransaction", "Lock", Tx(Alice, Bob, 30, 1, 1))>>)
    ~> (/\ Len(Blocks) = 2
        /\ GetBalance(UTXOs, Bob) = 30
        /\ GetBalance(UTXOs, Alice) = 69
        /\ GetBalance(UTXOs, Miner) >= 51
        /\ DOMAIN pool = {})

\* C8: with Alice holding 100 and tx1 (amount 80, fee 1, nonce 1) admitted to
\* the mempool, a call admitting tx2 (amount 80, fee 1, nonce 2) returns the
\* insufficient-balance error.
C8_DoubleSpendRejected ==
    \A t \in Threads :
        (/\ TxHash(Tx(Alice, Bob, 80, 1, 1)) \in DOMAIN pool
         /\ stack[t] = <<Frame("AddTransaction", "Lock", Tx(Alice, Bob, 80, 1, 2))>>)
        ~> (/\ Idle(t)
            /\ ret[t].fn = "AddTransaction"
            /\ ret[t].val = "invalid transaction: insufficient balance"
            /\ TxHash(Tx(Alice, Bob, 80, 1, 2)) \notin DOMAIN pool)

\* C9: every successful Validate lowers the total value of the ledger by
\* exactly the fee, raises the recipient's balance by the amount and lowers
\* the sender's by amount + fee, and DistributeFees then restores the total.
C9_ValueConserved ==
    lastValidate.ok =>
        LET tx == lastValidate.tx
            before == lastValidate.before
            after == lastValidate.after
        IN  /\ SumAmounts(after) = SumAmounts(before) - tx.Fee
            /\ tx.Sender # tx.Recipient =>
                  /\ GetBalance(after, tx.Recipient)
                        = GetBalance(before, tx.Recipient) + tx.Amount
                  /\ GetBalance(after, tx.Sender)
                        = GetBalance(before, tx.Sender) - (tx.Amount + tx.Fee)
            /\ SumAmounts(DistributeFees(after, tx, Miner)) = SumAmounts(before)

\* C10: for every account, Balance equals the UTXO balance of its address.
C10_BalanceMirrorsUTXOs ==
    \A a \in DOMAIN Accounts : Accounts[a].Balance = GetBalance(UTXOs, a)

(***************************************************************************)
(* Admission to the mempool over a wider range of transactions and         *)
(* accounts: specification AdmitSpec.                                      *)
(***************************************************************************)
MaxFee == 2
MaxTxNonce == 2
MaxAccountNonce == 1

\* const MinTransactionFee
MinTransactionFee == 1

\* The transactions a peer or a client may submit: any fee, any nonce
AdmitTxs ==
    {Tx(Alice, Bob, amount, fee, nonce) :
        amount \in {30, 120}, fee \in 0..MaxFee, nonce \in 0..MaxTxNonce}

\* Alice's account after some transactions of hers were counted
AccountsWithNonce(n) ==
    [a \in {Alice, Bob} |->
        [Balance |-> IF a = Alice THEN 100 ELSE 0,
         Nonce |-> IF a = Alice THEN n ELSE 0]]

AdmitInit ==
    /\ \E now \in 0..MaxTime : Blocks = <<GenesisBlock(now)>>
    /\ chainW = "none" /\ chainHeld = FALSE /\ chainReaders = {}
    /\ stack = [t \in Threads |-> <<>>]
    /\ ret = [t \in Threads |-> NoRet]
    /\ mine = NoMine
    /\ UTXOs = FundedUTXOs /\ pool = EmptyMap
    /\ \E n \in 0..MaxAccountNonce : Accounts = AccountsWithNonce(n)
    /\ poolW = "none" /\ poolHeld = FALSE /\ poolReaders = {}
    /\ lastValidate = NoValidate

\* handleTransaction or handleSendTransaction: Mempool.AddTransaction is
\* entered with what the peer or the client sent
CallAdmit(t) ==
    /\ t \in {"gossip", "api"} /\ Idle(t)
    /\ \E tx \in AdmitTxs :
          stack' = Push(t, Frame("AddTransaction", "Lock", tx))
    /\ UNCHANGED <<UTXOs, Accounts, pool, lastValidate, mine, ret>>
    /\ UNCHANGED lockVars
    /\ UNCHANGED chainVars

AdmitNext ==
    \/ \E t \in Threads : CallAdmit(t)
    \/ \E t \in Threads : PoolLock(t)
    \/ \E t \in Threads : PoolLockAcquire(t)
    \/ \E t \in Threads : AddTransactionValidate(t)

AdmitSpec == AdmitInit /\ [][AdmitNext]_vars

\* C11: every transaction in the mempool has a Nonce greater than the Nonce
\* of its sender's account (AddTransaction rejects every other one).
C11_NonceAboveAccount ==
    \A h \in DOMAIN pool : pool[h].Nonce > Accounts[pool[h].Sender].Nonce

\* C12: every transaction in the mempool has Fee >= MinTransactionFee.
C12_FeeAtLeastMinimum ==
    \A h \in DOMAIN pool : pool[h].Fee >= MinTransactionFee

\* C13: a call of AddTransaction with a transaction whose hash is already in
\* the mempool returns the already-exists error.
C13_DuplicateRejected ==
    \A t \in Threads :
        (/\ TxHash(Tx(Alice, Bob, 30, 1, 0)) \in DOMAIN pool
         /\ stack[t] = <<Frame("AddTransaction", "Lock", Tx(Alice, Bob, 30, 1, 0))>>)
        ~> (/\ Idle(t)
            /\ ret[t].fn = "AddTransaction"
            /\ ret[t].val = "transaction already exists in the mempool")

\* C14: a call of GetTransactions made after transactions were added returns
\* exactly the transactions of the mempool, each once, in non-increasing fee
\* order.
C14_ListsMempool ==
    (/\ DOMAIN pool # {}
     /\ stack["api"] = <<Frame("GetTransactions", "RLock", <<>>)>>)
    ~> (/\ Idle("api")
        /\ ret["api"].fn = "GetTransactions"
        /\ ret["api"].txs \in GetTransactionsResults(pool)
        /\ \A i \in 1..(Len(ret["api"].txs) - 1) :
              ret["api"].txs[i].Fee >= ret["api"].txs[i + 1].Fee)

(***************************************************************************)
(* The UTXO set by itself, an output added and then spent: specification   *)
(* UtxoSpec.                                                               *)
(***************************************************************************)
MaxIndex == 1

LedgerTxIDs == {TxHash(FundingTx(Alice, 100)), TxHash(Tx(Alice, Bob, 30, 1, 0))}

LedgerOutputs ==
    {UTXO(id, i, amount, owner) :
        id \in LedgerTxIDs, i \in 0..MaxIndex, amount \in {30, 69}, owner \in {Alice, Bob}}

\* The nested map holds at most one output for each (TxID, Index): a ledger
\* gives every key an output (Amount, Owner) or none (Amount 0)
LedgerKeys == LedgerTxIDs \X (0..MaxIndex)

LedgerSlots ==
    {[Amount |-> 0, Owner |-> Alice]}
        \cup {[Amount |-> amount, Owner |-> owner] : amount \in {30, 69}, owner \in {Alice, Bob}}

Ledgers ==
    {{UTXO(k[1], k[2], f[k].Amount, f[k].Owner) : k \in {x \in LedgerKeys : f[x].Amount # 0}} :
        f \in [LedgerKeys -> LedgerSlots]}

UtxoInit ==
    /\ \E now \in 0..MaxTime : Blocks = <<GenesisBlock(now)>>
    /\ chainW = "none" /\ chainHeld = FALSE /\ chainReaders = {}
    /\ ret = [t \in Threads |-> NoRet]
    /\ mine = NoMine
    /\ Accounts = FundedAccounts /\ pool = EmptyMap
    /\ poolW = "none" /\ poolHeld = FALSE /\ poolReaders = {}
    /\ lastValidate = NoValidate
    /\ UTXOs \in Ledgers
    /\ \E u \in LedgerOutputs :
          stack = [t \in Threads |->
                      IF t = "cli"
                      THEN <<Frame("addThenSpend", "AddUTXO", [u |-> u, before |-> UTXOs])>>
                      ELSE <<>>]

\* utxoSet.AddUTXO(u)
UtxoAdd ==
    /\ InFrame("cli", "addThenSpend", "AddUTXO")
    /\ UTXOs' = AddUTXO(UTXOs, Top("cli").arg.u)
    /\ stack' = SetTop("cli", "SpendUTXOs")
    /\ UNCHANGED <<Accounts, pool, lastValidate, mine, ret>>
    /\ UNCHANGED lockVars
    /\ UNCHANGED chainVars

\* utxoSet.SpendUTXOs([]UTXO{u})
UtxoSpend ==
    /\ InFrame("cli", "addThenSpend", "SpendUTXOs")
    /\ UTXOs' = SpendUTXOs(UTXOs, {Top("cli").arg.u})
    /\ stack' = SetTop("cli", "done")
    /\ UNCHANGED <<Accounts, pool, lastValidate, mine, ret>>
    /\ UNCHANGED lockVars
    /\ UNCHANGED chainVars

UtxoNext == UtxoAdd \/ UtxoSpend

UtxoSpec == UtxoInit /\ [][UtxoNext]_vars

\* C15: for every ledger and every output u, AddUTXO(u) followed by
\* SpendUTXOs([u]) leaves the ledger equal to what it was before the add.
C15_AddThenSpendRestores ==
    InFrame("cli", "addThenSpend", "done") => UTXOs = Top("cli").arg.before

(***************************************************************************)
(* The Merkle root of a list of transaction hashes: specification          *)
(* MerkleSpec.                                                             *)
(***************************************************************************)
MaxLeaves == 4

\* Hashes of transactions, as Block.calculateMerkleRoot collects them
LeafHashes ==
    {TxHash(RewardTx(Miner, BlockReward)), TxHash(Tx(Alice, Bob, 30, 1, 1)),
     TxHash(Tx(Alice, Bob, 80, 1, 2))}

RECURSIVE ListsUpTo(_, _)
ListsUpTo(S, n) ==
    IF n = 0 THEN {<<>>}
    ELSE LET shorter == ListsUpTo(S, n - 1)
         IN  shorter \cup {Append(l, x) : l \in {m \in shorter : Len(m) = n - 1}, x \in S}

MerkleInit ==
    /\ \E now \in 0..MaxTime : Blocks = <<GenesisBlock(now)>>
    /\ chainW = "none" /\ chainHeld = FALSE /\ chainReaders = {}
    /\ ret = [t \in Threads |-> NoRet]
    /\ mine = NoMine
    /\ LedgerFresh
    /\ \E hs \in ListsUpTo(LeafHashes, MaxLeaves) :
          stack = [t \in Threads |->
                      IF t = "cli" THEN <<Frame("calculateMerkleRoot", "call", hs)>>
                      ELSE <<>>]

\* calculateMerkleRoot(transactionHashes) runs and returns
MerkleReturn ==
    /\ InFrame("cli", "calculateMerkleRoot", "call")
    /\ ret' = Return("cli", "calculateMerkleRoot", calculateMerkleRoot(Top("cli").arg))
    /\ stack' = SetTop("cli", "returned")
    /\ UNCHANGED <<mine>>
    /\ UNCHANGED ledgerVars
    /\ UNCHANGED chainVars

MerkleNext == MerkleReturn

MerkleSpec == MerkleInit /\ [][MerkleNext]_vars

\* C16: calculateMerkleRoot returns "" for the empty list and the element for
\* a one-element list; otherwise it hashes adjacent pairs and an unpaired last
\* element by itself, level by level: root([a,b,c]) = H(H(a||b) || H(c)).
C16_MerkleRoot ==
    InFrame("cli", "calculateMerkleRoot", "returned") =>
        LET hs == Top("cli").arg
            root == ret["cli"].val
            H(x) == Digest(x)
        IN  /\ Len(hs) = 0 => root = EmptyStr
            /\ Len(hs) = 1 => root = hs[1]
            /\ Len(hs) = 2 => root = H(hs[1] \o hs[2])
            /\ Len(hs) = 3 => root = H(H(hs[1] \o hs[2]) \o H(hs[3]))
            /\ Len(hs) = 4 => root = H(H(hs[1] \o hs[2]) \o H(hs[3] \o hs[4]))
            /\ Len(hs) = 5 =>
                  root = H(H(H(hs[1] \o hs[2]) \o H(hs[3] \o hs[4])) \o H(H(hs[5])))

\* The root of a three-element list has been computed
C16_OddListHashed ==
    /\ InFrame("cli", "calculateMerkleRoot", "returned")
    /\ Len(Top("cli").arg) = 3
    /\ ret["cli"].fn = "calculateMerkleRoot"
    /\ ret["cli"].val # EmptyStr

(***************************************************************************)
(* Signing and verifying a transaction: specification SignSpec.            *)
(***************************************************************************)
MaxTimestamp == 1

\* Transaction.Signature == nil
NoSignature == [by |-> "nil", over |-> EmptyStr]

\* The Transaction struct with the two fields Hash leaves out
Transaction(tx, signature, timestamp) ==
    [Sender |-> tx.Sender, Recipient |-> tx.Recipient, Amount |-> tx.Amount,
     Fee |-> tx.Fee, Nonce |-> tx.Nonce, Signature |-> signature,
     Timestamp |-> timestamp]

\* Key pairs as GenerateKeyPair makes them: &privateKey.PublicKey
PrivateKeys == {"k1", "k2"}
PublicKeyOf(priv) == <<"pub", priv>>
PublicKeys == {PublicKeyOf(priv) : priv \in PrivateKeys}

\* ecdsa.Sign and ecdsa.Verify on P-256: a signature verifies under the
\* matching public key and the digest that was signed, and under nothing else
EcdsaSign(priv, digest) == [by |-> PublicKeyOf(priv), over |-> digest]
EcdsaVerify(pub, digest, sig) == sig.by = pub /\ sig.over = digest

\* Transaction.Sign: ecdsa.Sign(nil, privKey, hash[:]) is given no random
\* source. Where ecdsa.Sign reads its rand argument the call dereferences a
\* nil io.Reader and panics; where the argument is ignored it signs.
TxSignResults(t, priv) ==
    {[panic |-> TRUE, tx |-> t],
     [panic |-> FALSE,
      tx |-> [t EXCEPT !.Signature = EcdsaSign(priv, Digest(TxHash(t)))]]}

\* Transaction.Verify
TxVerify(t, pub) ==
    IF t.Signature = NoSignature THEN FALSE
    ELSE EcdsaVerify(pub, Digest(TxHash(t)), t.Signature)

SameHashedFields(a, b) ==
    /\ a.Sender = b.Sender /\ a.Recipient = b.Recipient
    /\ a.Amount = b.Amount /\ a.Fee = b.Fee /\ a.Nonce = b.Nonce

\* What handleCreateTransaction and handleSendTransaction build and sign
SignedTxs ==
    {Tx(Alice, Bob, amount, 1, nonce) : amount \in {30, 80}, nonce \in 0..MaxTxNonce}

SignInit ==
    /\ \E now \in 0..MaxTime : Blocks = <<GenesisBlock(now)>>
    /\ chainW = "none" /\ chainHeld = FALSE /\ chainReaders = {}
    /\ ret = [t \in Threads |-> NoRet]
    /\ mine = NoMine
    /\ LedgerFresh
    /\ \E tx \in SignedTxs, ts \in 0..MaxTimestamp, priv \in PrivateKeys :
          stack = [t \in Threads |->
                      IF t = "cli"
                      THEN <<Frame("Sign", "call",
                                   [tx |-> Transaction(tx, NoSignature, ts),
                                    orig |-> Transaction(tx, NoSignature, ts),
                                    priv |-> priv])>>
                      ELSE <<>>]

SignSetArg(arg) == [stack EXCEPT !["cli"][1].arg = arg]

\* tx.Sign(privKey) returns nil, or panics
SignReturn ==
    /\ InFrame("cli", "Sign", "call")
    /\ \E o \in TxSignResults(Top("cli").arg.tx, Top("cli").arg.priv) :
          stack' = [stack EXCEPT !["cli"][1] =
                       [fn |-> "Sign",
                        at |-> IF o.panic THEN "panicked" ELSE "returned",
                        arg |-> [Top("cli").arg EXCEPT !.tx = o.tx]]]
    /\ UNCHANGED <<mine, ret>>
    /\ UNCHANGED ledgerVars
    /\ UNCHANGED chainVars

\* The Timestamp field is set or changed
SignSetTimestamp ==
    /\ ~Idle("cli") /\ Top("cli").fn = "Sign"
    /\ \E ts \in 0..MaxTimestamp :
          /\ ts # Top("cli").arg.tx.Timestamp
          /\ stack' = SignSetArg([Top("cli").arg EXCEPT !.tx.Timestamp = ts])
    /\ UNCHANGED <<mine, ret>>
    /\ UNCHANGED ledgerVars
    /\ UNCHANGED chainVars

\* A hashed field of the signed transaction is changed
SignTamper ==
    /\ InFrame("cli", "Sign", "returned")
    /\ \E amount \in {30, 80} :
          /\ amount # Top("cli").arg.tx.Amount
          /\ stack' = SignSetArg([Top("cli").arg EXCEPT !.tx.Amount = amount])
    /\ UNCHANGED <<mine, ret>>
    /\ UNCHANGED ledgerVars
    /\ UNCHANGED chainVars

SignNext == SignReturn \/ SignSetTimestamp \/ SignTamper

SignSpec == SignInit /\ [][SignNext]_vars

\* C17: the hash of a transaction is the same before and after Sign and for
\* every Timestamp; once Sign(priv) has been called, Verify(pub) is true for
\* the public key of priv while no hashed field has changed and false for
\* every other key; Verify is false for a transaction without a signature.
C17_SignThenVerify ==
    (~Idle("cli") /\ Top("cli").fn = "Sign") =>
        LET a == Top("cli").arg
        IN  /\ SameHashedFields(a.tx, a.orig) => TxHash(a.tx) = TxHash(a.orig)
            /\ (Top("cli").at # "call" /\ SameHashedFields(a.tx, a.orig)) =>
                  \A pub \in PublicKeys : TxVerify(a.tx, pub) = (pub = PublicKeyOf(a.priv))
            /\ a.tx.Signature = NoSignature =>
                  \A pub \in PublicKeys : ~TxVerify(a.tx, pub)

(***************************************************************************)
(* ProofOfWork.Run with its goroutines: the workers, the producer of       *)
(* nonces, the work channel, the mutex and the timer: specification        *)
(* RunSpec.  All of it is kept in the record mine.                         *)
(***************************************************************************)
NumWorkers == 2      \* runtime.NumCPU(), also the capacity of workChan
MaxStartNonce == 1   \* startNonce is 0..MaxStartNonce
MaxSends == 3        \* the producer offers at most MaxSends nonces

Workers == 1..NumWorkers

\* The block AddBlock hands to NewProofOfWork: Index 0, no hash yet
RunBlocks ==
    {NewBlock(<<RewardTx(Miner, BlockReward)>> \o txs, GenesisBlock(0).Hash, d, now) :
        txs \in CandidateLists, d \in 1..MaxDifficulty, now \in 0..MaxTime}

TimeoutError == "proof of work failed: timeout reached"

\* Run up to the start of its goroutines
RunInit ==
    /\ \E now \in 0..MaxTime : Blocks = <<GenesisBlock(now)>>
    /\ chainW = "none" /\ chainHeld = FALSE /\ chainReaders = {}
    /\ stack = [t \in Threads |-> <<>>]
    /\ ret = [t \in Threads |-> NoRet]
    /\ LedgerFresh
    /\ \E b \in RunBlocks, startNonce \in 0..MaxStartNonce :
          mine = [stage |-> "run", block |-> b,
                  found |-> FALSE, nonce |-> 0, hash |-> EmptyStr, records |-> 0,
                  mu |-> 0,
                  workChan |-> <<>>, closed |-> FALSE, closes |-> 0,
                  fired |-> FALSE,
                  worker |-> [w \in Workers |-> [pc |-> "range", n |-> 0, h |-> EmptyStr]],
                  producer |-> [pc |-> "for", i |-> startNonce, sent |-> 0],
                  main |-> "Wait", panic |-> "none",
                  result |-> [nonce |-> 0, hash |-> EmptyStr, err |-> "none"]]

\* A panic in any goroutine ends the process
Running == mine.stage = "run" /\ mine.panic = "none"

RunUnchanged ==
    /\ UNCHANGED <<stack, ret>>
    /\ UNCHANGED chainVars
    /\ UNCHANGED ledgerVars

\* timeout := time.After(5 * time.Minute): the timer fires
RunTimerFires ==
    /\ Running /\ ~mine.fired
    /\ mine' = [mine EXCEPT !.fired = TRUE]
    /\ RunUnchanged

\* close(workChan): a second close panics
CloseWorkChan(m) ==
    IF m.closed THEN [m EXCEPT !.panic = "close of closed channel"]
    ELSE [m EXCEPT !.closed = TRUE, !.closes = @ + 1]

\* The producer's loop condition !found, read without the mutex: the read
\* may miss a write a worker has just made
ProducerFor ==
    /\ Running /\ mine.producer.pc = "for"
    /\ \E seen \in {mine.found, FALSE} :
          mine' = [mine EXCEPT !.producer.pc = IF seen THEN "done" ELSE "select"]
    /\ RunUnchanged

\* select { case <-timeout: close(workChan); return; default: ... }
ProducerSelect ==
    /\ Running /\ mine.producer.pc = "select"
    /\ mine' = IF mine.fired
               THEN CloseWorkChan([mine EXCEPT !.producer.pc = "done"])
               ELSE [mine EXCEPT !.producer.pc = "send"]
    /\ RunUnchanged

\* workChan <- i: waits while the buffer is full, panics on a closed channel
ProducerSend ==
    /\ Running /\ mine.producer.pc = "send"
    /\ mine.producer.sent < MaxSends
    /\ mine.closed \/ Len(mine.workChan) < NumWorkers
    /\ mine' = IF mine.closed
               THEN [mine EXCEPT !.panic = "send on closed channel"]
               ELSE [mine EXCEPT !.workChan = Append(@, mine.producer.i),
                                 !.producer = [pc |-> "for", i |-> @.i + 1,
                                               sent |-> @.sent + 1]]
    /\ RunUnchanged

\* for n := range workChan: the next nonce, or the end of the loop once the
\* channel is closed and drained
WorkerRange(w) ==
    /\ Running /\ mine.worker[w].pc = "range"
    /\ mine.workChan # <<>> \/ mine.closed
    /\ mine' = IF mine.workChan # <<>>
               THEN [mine EXCEPT !.workChan = Tail(@),
                                 !.worker[w] = [pc |-> "hash", n |-> Head(mine.workChan),
                                                h |-> EmptyStr]]
               ELSE [mine EXCEPT !.worker[w].pc = "done"]
    /\ RunUnchanged

\* h := pow.calculateHash(n); if strings.HasPrefix(h, zeros) { mu.Lock() ...
WorkerHash(w) ==
    /\ Running /\ mine.worker[w].pc = "hash"
    /\ LET h == PowCalculateHash(mine.block, mine.worker[w].n)
       IN  mine' = IF HasZeroPrefix(h, mine.block.Difficulty)
                   THEN [mine EXCEPT !.worker[w].h = h, !.worker[w].pc = "Lock"]
                   ELSE [mine EXCEPT !.worker[w].pc = "range"]
    /\ RunUnchanged

\* mu.Lock()
WorkerLock(w) ==
    /\ Running /\ mine.worker[w].pc = "Lock"
    /\ mine.mu = 0
    /\ mine' = [mine EXCEPT !.mu = w, !.worker[w].pc = "locked"]
    /\ RunUnchanged

\* The test left out: every worker that finds a solution records it
RecordsAlways(m) == TRUE

\* if !found
MayRecord(m) == ~m.found

\* if !found { found = true; nonce = n; hash = h; close(workChan) };
\* mu.Unlock(); break
WorkerRecord(w) ==
    /\ Running /\ mine.worker[w].pc = "locked"
    /\ mine' = IF MayRecord(mine)
               THEN CloseWorkChan([mine EXCEPT !.found = TRUE,
                                               !.nonce = mine.worker[w].n,
                                               !.hash = mine.worker[w].h,
                                               !.records = @ + 1,
                                               !.mu = 0,
                                               !.worker[w].pc = "done"])
               ELSE [mine EXCEPT !.mu = 0, !.worker[w].pc = "done"]
    /\ RunUnchanged

\* wg.Wait(); if !found { return 0, "", error }; return nonce, hash, nil
RunReturn ==
    /\ Running /\ mine.main = "Wait"
    /\ \A w \in Workers : mine.worker[w].pc = "done"
    /\ mine' = [mine EXCEPT
                  !.main = "returned",
                  !.result = IF mine.found
                             THEN [nonce |-> mine.nonce, hash |-> mine.hash, err |-> "nil"]
                             ELSE [nonce |-> 0, hash |-> EmptyStr, err |-> TimeoutError]]
    /\ RunUnchanged

ProducerStep == ProducerFor \/ ProducerSelect \/ ProducerSend
WorkerStep(w) == WorkerRange(w) \/ WorkerHash(w) \/ WorkerLock(w) \/ WorkerRecord(w)

RunNext ==
    \/ RunTimerFires
    \/ ProducerStep
    \/ \E w \in Workers : WorkerStep(w)
    \/ RunReturn

RunSpec == RunInit /\ [][RunNext]_vars

\* Go runs some goroutine that can run; the timer need not fire
FairRunSpec ==
    /\ RunSpec
    /\ WF_vars(ProducerStep \/ (\E w \in Workers : WorkerStep(w)) \/ RunReturn)

\* C18: Run records at most one (nonce, hash) pair, and when it returns
\* without error the returned hash is the hash computed for the returned
\* nonce and starts with at least Difficulty '0' characters.
C18_OneSolutionRecorded ==
    mine.stage = "run" =>
        /\ mine.records <= 1
        /\ mine.found =>
              /\ mine.records = 1
              /\ mine.hash = PowCalculateHash(mine.block, mine.nonce)
              /\ HasZeroPrefix(mine.hash, mine.block.Difficulty)
        /\ (mine.main = "returned" /\ mine.result.err = "nil") =>
              /\ mine.result.hash = PowCalculateHash(mine.block, mine.result.nonce)
              /\ HasZeroPrefix(mine.result.hash, mine.block.Difficulty)
              /\ ZeroPrefixLen(mine.result.hash) >= mine.block.Difficulty

\* Run has returned a solution after two workers had each found one
C18_TwoFoundOneReturned ==
    /\ mine.stage = "run"
    /\ mine.main = "returned" /\ mine.result.err = "nil"
    /\ \A w \in Workers : mine.worker[w].h # EmptyStr
    /\ mine.records = 1

\* C19: once a worker has recorded a solution Run shuts down cleanly in
\* every interleaving: no goroutine sends on the work channel after it was
\* closed and the channel is closed exactly once, on the success path and on
\* the timeout path.
C19_CleanShutdown ==
    mine.stage = "run" =>
        /\ mine.panic = "none"
        /\ mine.closes <= 1
        /\ mine.found => mine.closed

\* C20: when the time budget has elapsed and the producer has closed the
\* channel before any worker found a nonce, the workers stop and Run returns
\* the timeout error with nonce 0 and an empty hash.
C20_TimeoutReturnsError ==
    (/\ mine.stage = "run" /\ mine.panic = "none"
     /\ mine.fired /\ mine.closed /\ mine.producer.pc = "done"
     /\ ~mine.found /\ mine.records = 0
     /\ \A w \in Workers : mine.worker[w].pc \notin {"Lock", "locked"})
    ~> (/\ mine.main = "returned"
        /\ mine.panic = "none"
        /\ mine.result = [nonce |-> 0, hash |-> EmptyStr, err |-> TimeoutError])

(***************************************************************************)
(* Claims about the gossip handlers and the chain engine's functions.      *)
(***************************************************************************)

\* C21: handleResponseBlockchain goes on to replace the chain only with a
\* received chain that is strictly longer than the local one and for which
\* IsValidChain holds; a response that is dropped leaves Blocks unchanged;
\* and the replacement makes Blocks equal to the received chain.
C21_ReplaceIffLongerValid ==
    [][/\ (Idle("gossip") /\ InFrame("gossip", "handleResponseBlockchain", "Lock")') =>
             /\ Len(Top("gossip").arg') > Len(Blocks)
             /\ IsValidChain(Top("gossip").arg')
             /\ Blocks' = Blocks
       /\ (Idle("gossip") /\ ret'["gossip"] # ret["gossip"]) => Blocks' = Blocks
       /\ InFrame("gossip", "handleResponseBlockchain", "locked") =>
             \/ /\ Blocks' = Blocks /\ stack'["gossip"] = stack["gossip"]
             \/ /\ Blocks' = Top("gossip").arg
                /\ Len(Blocks') > Len(Blocks)
                /\ IsValidChain(Blocks')
       /\ (~Idle("gossip") /\ Top("gossip").fn = "handleResponseBlockchain"
             /\ Top("gossip").at # "locked") => Blocks' = Blocks
      ]_vars

\* A received chain has replaced the one-block local chain
C21_ChainReplaced ==
    /\ ret["gossip"].fn = "handleResponseBlockchain"
    /\ ret["gossip"].val = "replaced"
    /\ Len(Blocks) = 2
    /\ IsValidChain(Blocks)

(***************************************************************************)
(* Choosing a proposer by stake: specification ProposerSpec.               *)
(***************************************************************************)
MaxStake == 3

Stakers == {Alice, Bob, Miner}

\* The orders in which `range bc.Stake` may visit a stake map: every sequence
\* of distinct addresses, each with its stake.
StakeOrders ==
    {o \in ListsUpTo(Stakers \X (0..MaxStake), Cardinality(Stakers)) :
        \A i, j \in 1..Len(o) : i # j => o[i][1] # o[j][1]}

\* totalStake, summed over the map
RECURSIVE TotalStake(_)
TotalStake(order) ==
    IF order = <<>> THEN 0 ELSE order[1][2] + TotalStake(Tail(order))

\* The selection loop of SelectProposer for one iteration order and one
\* randomPoint: the first address at which the running total has reached
\* the random point, "" when the loop runs out.
RECURSIVE SelectProposerScan(_, _, _)
SelectProposerScan(order, runningTotal, randomPoint) ==
    IF order = <<>> THEN EmptyStr
    ELSE LET total == runningTotal + order[1][2]
         IN  IF total >= randomPoint THEN order[1][1]
             ELSE SelectProposerScan(Tail(order), total, randomPoint)

SelectProposerAt(order, randomPoint) == SelectProposerScan(order, 0, randomPoint)

ProposerInit ==
    /\ \E now \in 0..MaxTime : Blocks = <<GenesisBlock(now)>>
    /\ chainW = "none" /\ chainHeld = FALSE /\ chainReaders = {}
    /\ ret = [t \in Threads |-> NoRet]
    /\ mine = NoMine
    /\ LedgerFresh
    /\ \E order \in StakeOrders :
          stack = [t \in Threads |->
                      IF t = "cli"
                      THEN <<Frame("SelectProposer", "call",
                                   [order |-> order, totalStake |-> 0, randomPoint |-> 0])>>
                      ELSE <<>>]

\* SelectProposer sums the stake and returns "" when there is none
SelectProposerSum ==
    /\ InFrame("cli", "SelectProposer", "call")
    /\ LET totalStake == TotalStake(Top("cli").arg.order)
       IN  IF totalStake = 0
           THEN /\ ret' = Return("cli", "SelectProposer", EmptyStr)
                /\ stack' = SetTop("cli", "returned")
           ELSE /\ stack' = [stack EXCEPT !["cli"][Len(stack["cli"])] =
                                [@ EXCEPT !.at = "Intn", !.arg.totalStake = totalStake]]
                /\ UNCHANGED ret
    /\ UNCHANGED <<mine>>
    /\ UNCHANGED ledgerVars
    /\ UNCHANGED chainVars

\* randomPoint := weightedRandom.Intn(totalStake)
SelectProposerIntn ==
    /\ InFrame("cli", "SelectProposer", "Intn")
    /\ \E randomPoint \in 0..(Top("cli").arg.totalStake - 1) :
          stack' = [stack EXCEPT !["cli"][Len(stack["cli"])] =
                       [@ EXCEPT !.at = "range", !.arg.randomPoint = randomPoint]]
    /\ UNCHANGED <<mine, ret>>
    /\ UNCHANGED ledgerVars
    /\ UNCHANGED chainVars

\* The loop over bc.Stake and the return
SelectProposerReturn ==
    /\ InFrame("cli", "SelectProposer", "range")
    /\ ret' = Return("cli", "SelectProposer",
                     SelectProposerAt(Top("cli").arg.order, Top("cli").arg.randomPoint))
    /\ stack' = SetTop("cli", "returned")
    /\ UNCHANGED <<mine>>
    /\ UNCHANGED ledgerVars
    /\ UNCHANGED chainVars

ProposerNext == SelectProposerSum \/ SelectProposerIntn \/ SelectProposerReturn

ProposerSpec == ProposerInit /\ [][ProposerNext]_vars

\* bc.Stake[a] for the map that `order` lists (0 for an absent key)
StakeOf(order, a) ==
    IF \E i \in 1..Len(order) : order[i][1] = a
    THEN (CHOOSE e \in {order[i] : i \in 1..Len(order)} : e[1] = a)[2]
    ELSE 0

\* C22: SelectProposer is stake-weighted: for a stake map with positive total T
\* and a fixed iteration order, the number of draws r in [0, T) that return
\* address a equals Stake[a]; an address with stake 0 is never returned; and
\* "" is returned only when the total stake is 0.
C22_StakeWeighted ==
    InFrame("cli", "SelectProposer", "returned") =>
        LET order == Top("cli").arg.order
            T == TotalStake(order)
            proposer == ret["cli"].val
        IN  /\ T > 0 =>
                 \A a \in Stakers :
                    Cardinality({r \in 0..(T - 1) : SelectProposerAt(order, r) = a})
                       = StakeOf(order, a)
            /\ proposer # EmptyStr => StakeOf(order, proposer) > 0
            /\ proposer = EmptyStr => T = 0

(***************************************************************************)
(* Retargeting the difficulty: specification AdjustSpec.                   *)
(***************************************************************************)
MaxAdjustLen == 11
MaxWindowDifficulty == 2

\* Timestamp spans around the two thresholds, expectedTime/2 and expectedTime*2
WindowSpans == {0, 2999, 3000, 3001, 11999, 12000, 12001}

\* A chain of n blocks as bc.Blocks may hold it (grown locally or taken over
\* from a peer): the blocks before the tip carry difficulty d and timestamp 0,
\* the tip carries tipDifficulty and timestamp span.
RECURSIVE WindowChain(_, _, _, _)
WindowChain(n, d, tipDifficulty, span) ==
    IF n = 0 THEN <<>>
    ELSE LET before == WindowChain(n - 1, d, d, 0)
             b == [Index |-> n - 1, Timestamp |-> span,
                   PreviousHash |-> IF n = 1 THEN Str(<<"0">>) ELSE before[n - 1].Hash,
                   Hash |-> EmptyStr, Transactions |-> <<>>, Nonce |-> 0,
                   Difficulty |-> tipDifficulty]
         IN  Append(before, [b EXCEPT !.Hash = calculateHash(b)])

AdjustInit ==
    /\ \E n \in 1..MaxAdjustLen, d, tipDifficulty \in 1..MaxWindowDifficulty,
          span \in WindowSpans :
          Blocks = WindowChain(n, d, tipDifficulty, span)
    /\ chainW = "none" /\ chainHeld = FALSE /\ chainReaders = {}
    /\ ret = [t \in Threads |-> NoRet]
    /\ mine = NoMine
    /\ LedgerFresh
    /\ stack = [t \in Threads |->
                   IF t = "cli" THEN <<Frame("AdjustDifficulty", "call", <<>>)>>
                   ELSE <<>>]

\* bc.AdjustDifficulty() runs on bc.Blocks and returns
AdjustDifficultyReturn ==
    /\ InFrame("cli", "AdjustDifficulty", "call")
    /\ ret' = Return("cli", "AdjustDifficulty", AdjustDifficulty(Blocks))
    /\ stack' = SetTop("cli", "returned")
    /\ UNCHANGED <<mine>>
    /\ UNCHANGED ledgerVars
    /\ UNCHANGED chainVars

AdjustNext == AdjustDifficultyReturn

AdjustSpec == AdjustInit /\ [][AdjustNext]_vars

\* C23: AdjustDifficulty returns the tip's difficulty when the chain length is
\* not a multiple of AdjustmentInterval; at a multiple, with expected =
\* AdjustmentInterval*10*60 and actual = the timestamp span across the last
\* AdjustmentInterval blocks, it returns the current difficulty + 1 if
\* actual < expected/2, the current difficulty - 1 but never less than 1 if
\* actual > 2*expected, and the current difficulty otherwise.
C23_Retarget ==
    InFrame("cli", "AdjustDifficulty", "returned") =>
        LET n == Len(Blocks)
            current == Blocks[n].Difficulty
            expected == AdjustmentInterval * 10 * 60
            actual == Blocks[n].Timestamp - Blocks[n - AdjustmentInterval + 1].Timestamp
            result == ret["cli"].val
        IN  IF n % AdjustmentInterval # 0 THEN result = current
            ELSE IF 2 * actual < expected THEN result = current + 1
            ELSE IF actual > 2 * expected
                 THEN result = (IF current > 1 THEN current - 1 ELSE 1)
            ELSE result = current

(***************************************************************************)
(* Purging the mempool by age: specification PurgeSpec.                    *)
(***************************************************************************)
MaxPurgeTime == 4
MaxAgeHalves == 4

\* A time.Duration is counted here in half seconds
HalvesPerSecond == 2

\* What may sit in the mempool: transactions of Alice's, stamped at any time
PurgeTxs == {Tx(Alice, Bob, 30, fee, fee) : fee \in 1..3}

PurgePools ==
    UNION {[{TxHash(tx) : tx \in S} ->
               {Transaction(tx, NoSignature, ts) : tx \in S, ts \in 0..MaxPurgeTime}]
           : S \in SUBSET PurgeTxs}

\* Mempool.transactions is keyed by the hash of the entry
KeyedByHash(m) == \A h \in DOMAIN m : TxHash(m[h]) = h

\* PurgeOldTransactions with the entries of age maxAge removed as well
TooOldInclusive(tx, currentTime, maxAge) ==
    currentTime - tx.Timestamp >= maxAge \div HalvesPerSecond

\* currentTime-tx.Timestamp > int64(maxAge.Seconds())
TooOld(tx, currentTime, maxAge) ==
    currentTime - tx.Timestamp > maxAge \div HalvesPerSecond

PurgeInit ==
    /\ \E now \in 0..MaxTime : Blocks = <<GenesisBlock(now)>>
    /\ chainW = "none" /\ chainHeld = FALSE /\ chainReaders = {}
    /\ ret = [t \in Threads |-> NoRet]
    /\ mine = NoMine
    /\ UTXOs = {} /\ Accounts = EmptyMap
    /\ poolW = "none" /\ poolHeld = FALSE /\ poolReaders = {}
    /\ lastValidate = NoValidate
    /\ \E m \in {p \in PurgePools : KeyedByHash(p)} : pool = m
    /\ \E maxAge \in 0..MaxAgeHalves :
          stack = [t \in Threads |->
                      IF t = "cli"
                      THEN <<Frame("PurgeOldTransactions", "call",
                                   [maxAge |-> maxAge, before |-> pool])>>
                      ELSE <<>>]

\* m.PurgeOldTransactions(maxAge), the mempool's lock being free
PurgeOldTransactions ==
    /\ InFrame("cli", "PurgeOldTransactions", "call")
    /\ poolW = "none" /\ ~poolHeld /\ poolReaders = {}
    /\ \E currentTime \in 0..MaxPurgeTime :
          /\ pool' = [h \in {k \in DOMAIN pool :
                                ~TooOld(pool[k], currentTime, Top("cli").arg.maxAge)}
                        |-> pool[h]]
          /\ ret' = Return("cli", "PurgeOldTransactions", currentTime)
    /\ stack' = SetTop("cli", "returned")
    /\ UNCHANGED <<UTXOs, Accounts, lastValidate, mine>>
    /\ UNCHANGED lockVars
    /\ UNCHANGED chainVars

PurgeNext == PurgeOldTransactions

PurgeSpec == PurgeInit /\ [][PurgeNext]_vars

\* C24: PurgeOldTransactions(d) removes exactly the entries whose age, now
\* minus Timestamp, is greater than d: every entry older than d is gone and
\* every entry not older than d is still there, unchanged.
C24_PurgeExactlyOlder ==
    InFrame("cli", "PurgeOldTransactions", "returned") =>
        LET before == Top("cli").arg.before
            maxAge == Top("cli").arg.maxAge
            now == ret["cli"].val
            Older(tx) == HalvesPerSecond * (now - tx.Timestamp) > maxAge
        IN  /\ DOMAIN pool = {h \in DOMAIN before : ~Older(before[h])}
            /\ \A h \in DOMAIN pool : pool[h] = before[h]

\* An entry aged d + 1 second was removed and one aged d - 1 second was kept
C24_OlderGoneYoungerKept ==
    /\ InFrame("cli", "PurgeOldTransactions", "returned")
    /\ LET before == Top("cli").arg.before
           maxAge == Top("cli").arg.maxAge
           now == ret["cli"].val
           Age(h) == HalvesPerSecond * (now - before[h].Timestamp)
       IN  /\ \E h \in DOMAIN before : Age(h) = maxAge + HalvesPerSecond /\ h \notin DOMAIN pool
           /\ \E h \in DOMAIN before : Age(h) = maxAge - HalvesPerSecond /\ h \in DOMAIN pool

(***************************************************************************)
(* Rate limiting of incoming connections: specification RateSpec.          *)
(* Time is counted in seconds.                                             *)
(***************************************************************************)
MaxClock == 620

RateLimitWindow == 10
MaxRequestsPerWindow == 100

PeerAddr == Str(<<"p">>)

\* The peer connects at a steady pace (seconds between two connections) and
\* may at any time stay silent for longer than the window instead
Paces == {0, 6}
SilentFor == RateLimitWindow + 1

\* m[k], or the zero value when the key is absent
MapGet(m, k, zero) == IF k \in DOMAIN m THEN m[k] ELSE zero

\* NewNode: both maps empty; no connection was made yet
RateInit ==
    /\ \E now \in 0..MaxTime : Blocks = <<GenesisBlock(now)>>
    /\ chainW = "none" /\ chainHeld = FALSE /\ chainReaders = {}
    /\ ret = [t \in Threads |-> NoRet]
    /\ mine = NoMine
    /\ LedgerFresh
    /\ \E pace \in Paces :
          stack = [t \in Threads |->
                      IF t = "gossip"
                      THEN <<Frame("handleConnection", "accept",
                                   [now |-> 0, pace |-> pace,
                                    lastRequestTimes |-> EmptyMap,
                                    requestCounts |-> EmptyMap,
                                    connections |-> EmptyMap])>>
                      ELSE <<>>]

\* The times of the peer's connections that lie within the window ending at `now`
InWindow(connections, now) ==
    [t \in {u \in DOMAIN connections : now - u < RateLimitWindow} |-> connections[t]]

\* n.rateLimit(peerAddr) at time `now`: the node's maps afterwards and the result
rateLimit(node, now) ==
    LET reset == /\ PeerAddr \in DOMAIN node.lastRequestTimes
                 /\ now - node.lastRequestTimes[PeerAddr] > RateLimitWindow
        counts == IF reset THEN MapPut(node.requestCounts, PeerAddr, 0)
                  ELSE node.requestCounts
        count  == MapGet(counts, PeerAddr, 0) + 1
    IN  [lastRequestTimes |-> MapPut(node.lastRequestTimes, PeerAddr, now),
         requestCounts |-> MapPut(counts, PeerAddr, count),
         admitted |-> count <= MaxRequestsPerWindow]

\* handleConnection for a connection of the peer's that arrives `gap` seconds
\* after the previous one: it is dropped unless rateLimit admits it
HandleConnection(gap) ==
    /\ InFrame("gossip", "handleConnection", "accept")
    /\ LET node == Top("gossip").arg
           now == node.now + gap
           r == rateLimit(node, now)
           seen == InWindow(node.connections, now)
       IN  /\ now <= MaxClock
           /\ MapGet(node.requestCounts, PeerAddr, 0) <= MaxRequestsPerWindow + 1
           /\ stack' = [stack EXCEPT !["gossip"][1].arg =
                           [now |-> now, pace |-> node.pace,
                            lastRequestTimes |-> r.lastRequestTimes,
                            requestCounts |-> r.requestCounts,
                            connections |-> MapPut(seen, now, MapGet(seen, now, 0) + 1)]]
           /\ ret' = Return("gossip", "handleConnection",
                            IF r.admitted THEN "admitted" ELSE "Rate limit exceeded")
    /\ UNCHANGED <<mine>>
    /\ UNCHANGED ledgerVars
    /\ UNCHANGED chainVars

RateNext ==
    \/ HandleConnection(Top("gossip").arg.pace)
    \/ HandleConnection(SilentFor)

RateSpec == RateInit /\ [][RateNext]_vars

RECURSIVE SumOver(_, _)
SumOver(m, keys) ==
    IF keys = {} THEN 0
    ELSE LET k == CHOOSE x \in keys : TRUE
         IN  m[k] + SumOver(m, keys \ {k})

\* C25: rateLimit admits a connection from peer p if and only if p has made
\* at most MaxRequestsPerWindow connections, this one counted, within the
\* RateLimitWindow ending now.  (Hence a peer that never makes more than
\* MaxRequestsPerWindow requests in any window would never be rejected.)
C25_AdmitIffWithinWindow ==
    ret["gossip"].fn = "handleConnection" =>
        LET connections == Top("gossip").arg.connections
        IN  (ret["gossip"].val = "admitted")
               <=> (SumOver(connections, DOMAIN connections) <= MaxRequestsPerWindow)

\* What C26 says of a chain: every difficulty is at least 1, and the block
\* at index k (built when the chain had k blocks) differs in difficulty from
\* its predecessor only if k is a multiple of AdjustmentInterval, and then by 1
RetargetsOnlyAtInterval(blocks) ==
    \A i \in 1..Len(blocks) :
        /\ blocks[i].Difficulty >= 1
        /\ (i > 1 /\ blocks[i].Difficulty # blocks[i - 1].Difficulty) =>
              /\ (i - 1) % AdjustmentInterval = 0
              /\ blocks[i].Difficulty - blocks[i - 1].Difficulty \in {-1, 1}

\* C26: along a chain grown from genesis by AddBlock every block has
\* Difficulty >= 1, and a block's difficulty differs from its predecessor's
\* only when the chain length at which it was built is a multiple of
\* AdjustmentInterval, and then by exactly 1.  Checked as the step AddBlock
\* makes: on a chain of that shape, the difficulty AdjustDifficulty returns,
\* which AddBlock gives to the block it builds, keeps the chain in that shape.
C26_DifficultySteps ==
    (InFrame("cli", "AdjustDifficulty", "returned") /\ RetargetsOnlyAtInterval(Blocks)) =>
        LET newBlock == [Tip EXCEPT !.Index = Len(Blocks),
                                    !.Difficulty = ret["cli"].val]
        IN  RetargetsOnlyAtInterval(Append(Blocks, newBlock))

\* At a chain length that is a multiple of AdjustmentInterval the difficulty
\* for the next block moved away from the tip's
C26_RetargetedAtInterval ==
    /\ InFrame("cli", "AdjustDifficulty", "returned")
    /\ RetargetsOnlyAtInterval(Blocks)
    /\ Len(Blocks) % AdjustmentInterval = 0
    /\ ret["cli"].val # Tip.Difficulty

(***************************************************************************)
(* The transactions AddBlock puts into the block it builds: specification  *)
(* BuildSpec.                                                              *)
(***************************************************************************)
MaxCandidates == 3

MaxBlockSize == 1000000

\* len of the gob encoding of a transaction: the bytes of the ID string, and
\* one number for the type description and the other fields of the
\* transactions used here.  An ID is known by its length only.
GobOtherBytes == 100
TxSize(tx) == GobOtherBytes + tx.ID

\* A Transaction with its ID
WithID(t, id) == [f \in DOMAIN t \cup {"ID"} |-> IF f = "ID" THEN id ELSE t[f]]

\* minerRewardTx: only Sender, Recipient, Amount and Fee are set
MinerRewardTx(minerAddress, reward) ==
    WithID(Transaction(RewardTx(minerAddress, reward), NoSignature, 0), 0)

\* bc.Accounts: Alice, with her public key
BuildAccounts ==
    [a \in {Alice} |-> [Balance |-> 100, Nonce |-> 0, PublicKey |-> PublicKeyOf("k1")]]

\* Blockchain.IsValidTransaction
IsValidTransaction(tx, accounts) ==
    /\ tx.Sender \in DOMAIN accounts
    /\ TxVerify(tx, accounts[tx.Sender].PublicKey)
    /\ ~(accounts[tx.Sender].Balance < tx.Amount + tx.Fee)
    /\ ~(tx.Nonce <= accounts[tx.Sender].Nonce)
    /\ ~(tx.Fee < MinTransactionFee)

\* Candidates as callers pass them: good ones with fee 1 or 2, and one for each
\* way of failing IsValidTransaction; each with a short and with two long IDs
SignedBy(priv, tx) ==
    Transaction(tx, EcdsaSign(priv, Digest(TxHash(tx))), 0)

BuildCandidates ==
    {WithID(t, id) :
        t \in {SignedBy("k1", Tx(Alice, Bob, 30, 1, 1)),
               SignedBy("k1", Tx(Alice, Bob, 30, 2, 1)),
               Transaction(Tx(Alice, Bob, 30, 1, 2), NoSignature, 0),
               SignedBy("k2", Tx(Alice, Bob, 30, 2, 2)),
               SignedBy("k1", Tx(Alice, Bob, 120, 1, 1)),
               SignedBy("k1", Tx(Alice, Bob, 30, 2, 0)),
               SignedBy("k1", Tx(Alice, Bob, 30, 0, 1)),
               SignedBy("k2", Tx(Bob, Alice, 30, 1, 1))},
        id \in {0, 500000, 600000}}

\* AddBlock's loop with a break at the first transaction that does not fit
RECURSIVE CollectUntilFull(_, _, _, _)
CollectUntilFull(transactions, validTransactions, currentSize, accounts) ==
    IF transactions = <<>> THEN validTransactions
    ELSE LET tx == Head(transactions)
         IN  IF IsValidTransaction(tx, accounts)
             THEN IF currentSize + TxSize(tx) <= MaxBlockSize
                  THEN CollectUntilFull(Tail(transactions), Append(validTransactions, tx),
                                        currentSize + TxSize(tx), accounts)
                  ELSE validTransactions
             ELSE CollectUntilFull(Tail(transactions), validTransactions, currentSize,
                                   accounts)

\* AddBlock: the loop that collects valid transactions up to the max block size
RECURSIVE CollectValid(_, _, _, _)
CollectValid(transactions, validTransactions, currentSize, accounts) ==
    IF transactions = <<>> THEN validTransactions
    ELSE LET tx == Head(transactions)
         IN  IF IsValidTransaction(tx, accounts) /\ currentSize + TxSize(tx) <= MaxBlockSize
             THEN CollectValid(Tail(transactions), Append(validTransactions, tx),
                               currentSize + TxSize(tx), accounts)
             ELSE CollectValid(Tail(transactions), validTransactions, currentSize, accounts)

\* AddBlock, from the reward transaction to validTransactions
AddBlockTransactions(candidates, minerAddress, reward, accounts) ==
    LET minerRewardTx == MinerRewardTx(minerAddress, reward)
        transactions == sortTransactionsByFee(<<minerRewardTx>> \o candidates)
    IN  CollectValid(transactions, <<minerRewardTx>>, TxSize(minerRewardTx), accounts)

BuildInit ==
    /\ \E now \in 0..MaxTime : Blocks = <<GenesisBlock(now)>>
    /\ chainW = "none" /\ chainHeld = FALSE /\ chainReaders = {}
    /\ ret = [t \in Threads |-> NoRet]
    /\ mine = NoMine
    /\ UTXOs = {} /\ pool = EmptyMap /\ Accounts = BuildAccounts
    /\ poolW = "none" /\ poolHeld = FALSE /\ poolReaders = {}
    /\ lastValidate = NoValidate
    /\ \E txs \in ListsUpTo(BuildCandidates, MaxCandidates) :
          /\ \A i, j \in 1..Len(txs) : i # j => txs[i] # txs[j]
          /\ stack = [t \in Threads |->
                         IF t = "cli" THEN <<Frame("AddBlock", "transactions", txs)>>
                         ELSE <<>>]

\* AddBlock puts together validTransactions for NewBlock
AddBlockCollect ==
    /\ InFrame("cli", "AddBlock", "transactions")
    /\ ret' = ReturnTxs("cli", "AddBlock",
                        AddBlockTransactions(Top("cli").arg, Miner, BlockReward, Accounts))
    /\ stack' = SetTop("cli", "NewBlock")
    /\ UNCHANGED <<UTXOs, Accounts, pool, lastValidate, mine>>
    /\ UNCHANGED lockVars
    /\ UNCHANGED chainVars

BuildNext == AddBlockCollect

BuildSpec == BuildInit /\ [][BuildNext]_vars

RECURSIVE TotalSize(_)
TotalSize(txs) == IF txs = <<>> THEN 0 ELSE TxSize(Head(txs)) + TotalSize(Tail(txs))

\* C27: the block built by AddBlock has the reward transaction first and
\* exactly once (sender "system", recipient the selected miner, amount the
\* block reward, fee 0), followed only by candidates that pass
\* IsValidTransaction, in non-increasing fee order, with total size at most
\* MaxBlockSize; a transaction is left out whole only if it is invalid or
\* would overflow, and smaller ones after it are still taken.
C27_BlockTransactions ==
    InFrame("cli", "AddBlock", "NewBlock") =>
        LET candidates == Top("cli").arg
            txs == ret["cli"].txs
            In(tx, list) == \E i \in 1..Len(list) : list[i] = tx
        IN  /\ txs[1].Sender = System /\ txs[1].Recipient = Miner
            /\ txs[1].Amount = BlockReward /\ txs[1].Fee = 0
            /\ \A i \in 2..Len(txs) :
                  /\ txs[i] # txs[1]
                  /\ In(txs[i], candidates)
                  /\ IsValidTransaction(txs[i], Accounts)
                  /\ i > 2 => txs[i - 1].Fee >= txs[i].Fee
            /\ \A i, j \in 2..Len(txs) : i # j => txs[i] # txs[j]
            /\ TotalSize(txs) <= MaxBlockSize
            /\ \A k \in 1..Len(candidates) :
                  (IsValidTransaction(candidates[k], Accounts) /\ ~In(candidates[k], txs))
                     => TotalSize(txs) + TxSize(candidates[k]) > MaxBlockSize

\* A valid transaction that did not fit was left out and one with a lower
\* fee, which fitted, was taken
C27_SkippedThenIncluded ==
    /\ InFrame("cli", "AddBlock", "NewBlock")
    /\ LET candidates == Top("cli").arg
           txs == ret["cli"].txs
           In(tx, list) == \E i \in 1..Len(list) : list[i] = tx
       IN  \E a, b \in 1..Len(candidates) :
              /\ IsValidTransaction(candidates[a], Accounts)
              /\ ~In(candidates[a], txs)
              /\ In(candidates[b], txs)
              /\ candidates[a].Fee > candidates[b].Fee

(***************************************************************************)
(* The MINE command after bc.AddBlock(transactions) has returned:          *)
(* specification MinedSpec.                                                *)
(***************************************************************************)
MaxPooled == 3

\* Transactions the mempool admits with Alice's account: validateAccounts
\* passes; signature, nonce and fee are not looked at
AdmittedTxs ==
    {t \in BuildCandidates : t.ID = 0 /\ validateAccounts(t, BuildAccounts) = "nil"}

AdmittedPools ==
    {[h \in {TxHash(t) : t \in S} |-> CHOOSE t \in S : TxHash(t) = h] :
        S \in {T \in SUBSET AdmittedTxs : Cardinality(T) <= MaxPooled}}

\* What AddBlock hands back: nil, or the block it built from `transactions`
NilBlock == [nil |-> TRUE]

BuiltBlock(transactions, now) ==
    [nil |-> FALSE,
     block |-> [NewBlock(AddBlockTransactions(transactions, Miner, BlockReward, BuildAccounts),
                         Tip.Hash, AdjustDifficulty(Blocks), now)
                   EXCEPT !.Index = Len(Blocks)]]

MinedInit ==
    /\ \E now \in 0..MaxTime : Blocks = <<GenesisBlock(now)>>
    /\ chainW = "none" /\ chainHeld = FALSE /\ chainReaders = {}
    /\ ret = [t \in Threads |-> NoRet]
    /\ mine = NoMine
    /\ UTXOs = {UTXO(GenesisTxID, 0, 0, Miner)} /\ Accounts = BuildAccounts
    /\ poolW = "none" /\ poolHeld = FALSE /\ poolReaders = {}
    /\ lastValidate = NoValidate
    /\ \E m \in AdmittedPools : pool = m
    /\ \E transactions \in GetTransactionsResults(pool), now \in 0..MaxTime :
       \E newBlock \in {NilBlock, BuiltBlock(transactions, now)} :
          stack = [t \in Threads |->
                      IF t = "cli"
                      THEN <<Frame("handleMineBlock", "AddBlock",
                                   [transactions |-> transactions, newBlock |-> newBlock,
                                    before |-> pool])>>
                      ELSE <<>>]

\* for _, tx := range transactions { tx.DistributeFees(utxoSet, minerAddress) }
RECURSIVE DistributeAllFees(_, _, _)
DistributeAllFees(utxos, transactions, minerAddress) ==
    IF transactions = <<>> THEN utxos
    ELSE DistributeAllFees(DistributeFees(utxos, Head(transactions), minerAddress),
                           Tail(transactions), minerAddress)

\* handleMineBlock from the nil test to the end: tp.Clear() and the fees
HandleMineBlockMined ==
    /\ InFrame("cli", "handleMineBlock", "AddBlock")
    /\ poolW = "none" /\ ~poolHeld /\ poolReaders = {}
    /\ IF Top("cli").arg.newBlock.nil
       THEN /\ ret' = Return("cli", "handleMineBlock", "Failed to mine block.")
            /\ UNCHANGED <<pool, UTXOs>>
       ELSE /\ pool' = EmptyMap
            /\ UTXOs' = DistributeAllFees(UTXOs, Top("cli").arg.transactions, Miner)
            /\ ret' = Return("cli", "handleMineBlock", "Block mined successfully!")
    /\ stack' = SetTop("cli", "returned")
    /\ UNCHANGED <<Accounts, lastValidate, mine>>
    /\ UNCHANGED lockVars
    /\ UNCHANGED chainVars

MinedNext == HandleMineBlockMined

MinedSpec == MinedInit /\ [][MinedNext]_vars

\* C28: after a block was mined, every transaction included in it is absent
\* from the mempool and every admitted transaction that was not included is
\* still there; when no block was mined the mempool is as before.
C28_OnlyIncludedLeave ==
    InFrame("cli", "handleMineBlock", "returned") =>
        LET before == Top("cli").arg.before
            newBlock == Top("cli").arg.newBlock
            Included(tx) ==
                \E i \in 1..Len(newBlock.block.Transactions) :
                    newBlock.block.Transactions[i] = tx
        IN  IF newBlock.nil THEN pool = before
            ELSE \A h \in DOMAIN before :
                    IF Included(before[h]) THEN h \notin DOMAIN pool
                    ELSE h \in DOMAIN pool /\ pool[h] = before[h]

(***************************************************************************)
(* AddBlockPoS once SelectProposer has named a proposer: specification     *)
(* PosSpec.                                                                *)
(***************************************************************************)
PosInit ==
    /\ \E now \in 0..MaxMineTime : Blocks = <<GenesisBlock(now)>>
    /\ chainW = "none" /\ chainHeld = FALSE /\ chainReaders = {}
    /\ ret = [t \in Threads |-> NoRet]
    /\ mine = NoMine
    /\ LedgerFresh
    /\ \E order \in StakeOrders, txs \in CandidateLists :
          /\ TotalStake(order) > 0
          /\ \E randomPoint \in 0..(TotalStake(order) - 1) :
                stack = [t \in Threads |->
                            IF t = "cli"
                            THEN <<Frame("AddBlockPoS", "proposer",
                                         [transactions |-> txs, Stake |-> order,
                                          proposer |-> SelectProposerAt(order, randomPoint),
                                          lastBlock |-> Tip])>>
                            ELSE <<>>]

\* AddBlockPoS from lastBlock on: the reward, NewBlock, Nonce = 0, and the
\* append if IsValidNewBlock holds (clearMinedTransactions is then entered)
AddBlockPoSAppend ==
    /\ InFrame("cli", "AddBlockPoS", "proposer")
    /\ \E now \in 0..MaxMineTime :
          /\ Tip.Timestamp <= now
          /\ LET lastBlock == Tip
                 minerRewardTx == RewardTx(Top("cli").arg.proposer, BlockReward)
                 transactions == <<minerRewardTx>> \o Top("cli").arg.transactions
                 newBlock == [NewBlock(transactions, lastBlock.Hash, lastBlock.Difficulty, now)
                                 EXCEPT !.Nonce = 0]
             IN  IF IsValidNewBlock(newBlock, lastBlock)
                 THEN /\ Blocks' = Append(Blocks, newBlock)
                      /\ ret' = Return("cli", "AddBlockPoS", "newBlock")
                      /\ stack' = PushFrom("cli", "clearMinedTransactions",
                                           Frame("clearMinedTransactions", "Lock", transactions))
                 ELSE /\ Blocks' = Blocks
                      /\ ret' = Return("cli", "AddBlockPoS", "nil")
                      /\ stack' = SetTop("cli", "returned")
    /\ UNCHANGED <<chainW, chainHeld, chainReaders, mine>>
    /\ UNCHANGED ledgerVars

PosNext == AddBlockPoSAppend

PosSpec == PosInit /\ [][PosNext]_vars

\* C29: when some address has positive stake, AddBlockPoS appends exactly one
\* block whose Index is the previous chain length, whose PreviousHash is the
\* old tip's hash, whose Nonce is 0, whose Difficulty is the old tip's and
\* whose first transaction is the reward to the selected proposer.
C29_PoSAppendsOneBlock ==
    (~Idle("cli") /\ stack["cli"][1].fn = "AddBlockPoS"
        /\ stack["cli"][1].at # "proposer") =>
        LET lastBlock == stack["cli"][1].arg.lastBlock
            proposer == stack["cli"][1].arg.proposer
        IN  /\ Len(Blocks) = lastBlock.Index + 2
            /\ Blocks[Len(Blocks) - 1] = lastBlock
            /\ Tip.Index = Len(Blocks) - 1
            /\ Tip.PreviousHash = lastBlock.Hash
            /\ Tip.Nonce = 0
            /\ Tip.Difficulty = lastBlock.Difficulty
            /\ Tip.Transactions[1] = RewardTx(proposer, BlockReward)

\* C30: handleNewBlock appends the decoded block and rebroadcasts the same
\* payload to every known peer only for a block for which IsValidNewBlock
\* holds against the current tip, also at the moment of the append; a block
\* that is dropped leaves the chain unchanged and nothing is sent; and the
\* block appended is never the tip itself, so that the same block is not
\* appended and sent again while it is the tip.
C30_AppendAndSendIffValid ==
    [][/\ (Idle("gossip") /\ InFrame("gossip", "handleNewBlock", "Lock")') =>
              /\ IsValidNewBlock(Top("gossip").arg', Tip)
              /\ Blocks' = Blocks /\ ret' = ret
       /\ (Idle("gossip") /\ Idle("gossip")' /\ ret'["gossip"] # ret["gossip"]
              /\ ret'["gossip"].fn = "handleNewBlock") =>
              /\ Blocks' = Blocks
              /\ ret'["gossip"].val = "dropped"
              /\ "sent" \notin DOMAIN ret'["gossip"]
       /\ (InFrame("gossip", "handleNewBlock", "locked") /\ Blocks' # Blocks) =>
              LET block == Top("gossip").arg
              IN  /\ Blocks' = Append(Blocks, block)
                  /\ IsValidNewBlock(block, Tip)
                  /\ block # Tip
                  /\ ret'["gossip"].val = "appended"
                  /\ ret'["gossip"].sent =
                        [peer \in KnownPeers |-> [Type |-> "NewBlock", Payload |-> block]]
       /\ (~Idle("gossip") /\ Top("gossip").fn = "handleNewBlock") =>
              \/ /\ Blocks' = Blocks /\ ret'["gossip"] = ret["gossip"]
              \/ /\ Top("gossip").at = "locked" /\ Blocks' # Blocks
      ]_vars

\* A block received from a peer was appended and sent on to both peers
C30_BlockAppendedAndSent ==
    /\ ret["gossip"].fn = "handleNewBlock"
    /\ ret["gossip"].val = "appended"
    /\ Len(Blocks) = 2
    /\ \A peer \in KnownPeers : ret["gossip"].sent[peer].Payload = Tip

(***************************************************************************)
(* Peer discovery and outbound connections: specification PeerSpec.        *)
(* The node's fields and its goroutines are kept in the frame of the       *)
(* gossip thread.  A byte slice is a string; JSON text is the string of    *)
(* its characters.                                                         *)
(***************************************************************************)
MaxGoroutines == 2   \* connectToPeer / broadcast goroutines started in a run
MaxMessages == 2     \* NewPeer messages a run receives

MaxConnectionRetries == 3

NodeAddress == Str(<<":", "1">>)
RemoteAddresses == {Str(<<":", "2">>), Str(<<":", "3">>)}

Quote == Chr("q")

\* json.Marshal of a Go string without characters that need escaping
jsonMarshalString(s) == <<Quote>> \o s \o <<Quote>>

\* json.Unmarshal(payload, &peerAddress): the text must be one JSON string
jsonUnmarshalString(payload) ==
    IF /\ Len(payload) >= 2
       /\ payload[1] = Quote /\ payload[Len(payload)] = Quote
       /\ \A i \in 2..(Len(payload) - 1) : payload[i] # Quote
    THEN [err |-> FALSE, val |-> SubSeq(payload, 2, Len(payload) - 1)]
    ELSE [err |-> TRUE, val |-> EmptyStr]

\* encoding/json writes a []byte field as base64 text and reads it back
Base64(bytes) == <<[c |-> "=", pre |-> bytes]>>
Base64Decode(text) == text[1].pre

\* encoder.Encode(msg) on one side, decoder.Decode(&msg) on the other
EncodeMessage(msg) == [Type |-> msg.Type, Payload |-> Base64(msg.Payload)]
DecodeMessage(wire) == [Type |-> wire.Type, Payload |-> Base64Decode(wire.Payload)]

\* The message connectToPeer sends from the node listening at `address`
ConnectToPeerMessage(address) == [Type |-> "NewPeer", Payload |-> address]

\* The NewPeer message as the protocol describes it
JSONNewPeerMessage(address) == [Type |-> "NewPeer", Payload |-> jsonMarshalString(address)]

\* What arrives: remote nodes running connectToPeer against this node, and
\* clients that send the address as a JSON string
IncomingNewPeer ==
    {EncodeMessage(ConnectToPeerMessage(a)) : a \in RemoteAddresses}
        \cup {EncodeMessage(JSONNewPeerMessage(a)) : a \in RemoteAddresses}

Goroutine(fn, address) == [fn |-> fn, address |-> address, i |-> 0, dials |-> 0, at |-> "loop"]

\* DiscoverPeers(knownPeers): one connectToPeer per address that is not the node's own
DiscoverPeers(knownPeers) ==
    [k \in 1..Len(knownPeers) |-> Goroutine("connectToPeer", knownPeers[k])]

KnownPeerLists == {<<>>} \cup {<<a>> : a \in RemoteAddresses}

PeerNode == Top("gossip").arg

SetPeerNode(node) == [stack EXCEPT !["gossip"][1].arg = node]

\* NewNode, then node.DiscoverPeers(parsePeers(*knownPeers)) in main
PeerInit ==
    /\ \E now \in 0..MaxTime : Blocks = <<GenesisBlock(now)>>
    /\ chainW = "none" /\ chainHeld = FALSE /\ chainReaders = {}
    /\ ret = [t \in Threads |-> NoRet]
    /\ mine = NoMine
    /\ LedgerFresh
    /\ \E knownPeers \in KnownPeerLists :
          stack = [t \in Threads |->
                      IF t = "gossip"
                      THEN <<Frame("Start", "accept",
                                   [Peers |-> {},
                                    messageQueue |-> <<>>,
                                    goroutines |-> DiscoverPeers(knownPeers),
                                    received |-> 0])>>
                      ELSE <<>>]

PeerUnchanged ==
    /\ UNCHANGED <<mine>>
    /\ UNCHANGED ledgerVars
    /\ UNCHANGED chainVars

\* handleConnection: decode the message and queue it
HandleConnectionNewPeer ==
    /\ InFrame("gossip", "Start", "accept")
    /\ PeerNode.received < MaxMessages
    /\ \E wire \in IncomingNewPeer :
          stack' = SetPeerNode([PeerNode EXCEPT
                                   !.messageQueue = Append(@, DecodeMessage(wire)),
                                   !.received = @ + 1])
    /\ UNCHANGED ret
    /\ PeerUnchanged

\* processMessageQueue taking a NewPeer message: handleNewPeer
HandleNewPeer ==
    /\ InFrame("gossip", "Start", "accept")
    /\ PeerNode.messageQueue # <<>>
    /\ LET msg == Head(PeerNode.messageQueue)
           rest == [PeerNode EXCEPT !.messageQueue = Tail(@)]
           peerAddress == jsonUnmarshalString(msg.Payload)
           result(val) == [fn |-> "handleNewPeer", val |-> val, txs |-> <<>>,
                           msg |-> msg, Peers |-> PeerNode.Peers]
       IN  IF peerAddress.err
           THEN /\ stack' = SetPeerNode(rest)
                /\ ret' = [ret EXCEPT !["gossip"] =
                              result("Failed to unmarshal new peer address")]
           ELSE IF peerAddress.val \in PeerNode.Peers
           THEN /\ stack' = SetPeerNode(rest)
                /\ ret' = [ret EXCEPT !["gossip"] = result("known")]
           ELSE /\ Len(PeerNode.goroutines) < MaxGoroutines
                /\ stack' = SetPeerNode([rest EXCEPT
                               !.Peers = @ \cup {peerAddress.val},
                               !.goroutines =
                                   Append(@, Goroutine("connectToPeer", peerAddress.val))])
                /\ ret' = [ret EXCEPT !["gossip"] = result("recorded")]
    /\ PeerUnchanged

\* broadcastToPeers: one goroutine per known peer
BroadcastToPeers ==
    /\ InFrame("gossip", "Start", "accept")
    /\ PeerNode.Peers # {}
    /\ \E order \in Perms(PeerNode.Peers) :
          /\ Len(PeerNode.goroutines) + Len(order) <= MaxGoroutines
          /\ stack' = SetPeerNode([PeerNode EXCEPT !.goroutines =
                          @ \o [k \in 1..Len(order) |-> Goroutine("broadcastToPeers", order[k])]])
    /\ UNCHANGED ret
    /\ PeerUnchanged

DialOutcomes == {"tls config", "dial failed", "send failed", "sent"}

\* i++ of the retry loops
NoNextAttempt(i) == i
NextAttempt(i) == i + 1

\* One pass of the retry loop of connectToPeer or of a broadcast goroutine
DialAttempt(g, outcome) ==
    /\ InFrame("gossip", "Start", "accept")
    /\ g \in 1..Len(PeerNode.goroutines)
    /\ LET r == PeerNode.goroutines[g]
           dialled == [r EXCEPT !.dials = @ + 1]
       IN  /\ r.at = "loop"
           /\ IF r.i >= MaxConnectionRetries
              THEN /\ outcome = "dial failed"
                   /\ stack' = SetPeerNode([PeerNode EXCEPT !.goroutines[g].at = "done"])
              ELSE CASE outcome = "tls config" ->
                          stack' = SetPeerNode([PeerNode EXCEPT !.goroutines[g].at = "done"])
                     [] outcome \in {"dial failed", "send failed"} ->
                          stack' = SetPeerNode([PeerNode EXCEPT !.goroutines[g] =
                                       [dialled EXCEPT !.i = NextAttempt(@)]])
                     [] outcome = "sent" ->
                          stack' = SetPeerNode([PeerNode EXCEPT
                                       !.goroutines[g] = [dialled EXCEPT !.at = "done"],
                                       !.Peers = IF r.fn = "connectToPeer"
                                                 THEN @ \cup {r.address} ELSE @])
    /\ UNCHANGED ret
    /\ PeerUnchanged

PeerNext ==
    \/ HandleConnectionNewPeer
    \/ HandleNewPeer
    \/ BroadcastToPeers
    \/ \E g \in 1..MaxGoroutines, outcome \in DialOutcomes : DialAttempt(g, outcome)

PeerSpec == PeerInit /\ [][PeerNext]_vars

\* Go runs every goroutine that can run, and tls.Dial and Encode return
FairPeerSpec ==
    /\ PeerSpec
    /\ WF_vars(\E g \in 1..MaxGoroutines, outcome \in DialOutcomes : DialAttempt(g, outcome))

\* C31: a NewPeer message sent by a node's connectToPeer is decoded by
\* handleNewPeer, which records an unknown address and starts exactly one
\* connectToPeer for it, and changes nothing when the address is known.
C31_NewPeerHandled ==
    \A a \in RemoteAddresses :
        (/\ ret["gossip"].fn = "handleNewPeer"
         /\ ret["gossip"].msg = DecodeMessage(EncodeMessage(ConnectToPeerMessage(a)))) =>
            \/ /\ ret["gossip"].val = "recorded"
               /\ a \notin ret["gossip"].Peers
            \/ /\ ret["gossip"].val = "known"
               /\ a \in ret["gossip"].Peers

C33_AppendedBlocksBroadcast ==
    [][/\ \A k \in 1..Len(Blocks') :
              (\A j \in 1..Len(Blocks) : Blocks[j] # Blocks'[k]) =>
                  /\ "sent" \in DOMAIN ret'["gossip"]
                  /\ \A peer \in KnownPeers :
                         ret'["gossip"].sent[peer] =
                             [Type |-> "NewBlock", Payload |-> Blocks'[k]]
       /\ (ret'["gossip"] # ret["gossip"] /\ "sent" \in DOMAIN ret'["gossip"]) =>
              \A peer \in KnownPeers :
                  \E k \in 1..Len(Blocks') : ret'["gossip"].sent[peer].Payload = Blocks'[k]
      ]_vars

(***************************************************************************)
(* Transaction.Validate called by two goroutines at once, the UTXO set     *)
(* operations taking UTXOSet.lock one by one: specification RaceSpec.      *)
(* The CLI calls Validate without any other lock (handleCreateTransaction),*)
(* the gossip path under the mempool's lock, which the CLI call ignores.   *)
(***************************************************************************)
Validators == {"cli", "gossip"}

\* Transfers Alice may ask for on either path
RaceTxs == {Tx(Alice, r, amount, 1, 0) : r \in {Bob, Miner}, amount \in {30, 60, 100}}

RaceInit ==
    /\ \E now \in 0..MaxTime : Blocks = <<GenesisBlock(now)>>
    /\ chainW = "none" /\ chainHeld = FALSE /\ chainReaders = {}
    /\ stack = [t \in Threads |-> <<>>]
    /\ ret = [t \in Threads |-> NoRet]
    /\ mine = NoMine
    /\ UTXOs = FundedUTXOs /\ Accounts = FundedAccounts /\ pool = EmptyMap
    /\ poolW = "none" /\ poolHeld = FALSE /\ poolReaders = {}
    /\ lastValidate = NoValidate

RaceUnchanged ==
    /\ UNCHANGED <<mine, Accounts, pool, lastValidate>>
    /\ UNCHANGED lockVars
    /\ UNCHANGED chainVars

ValidateReturn(t, err) ==
    /\ stack' = SetTop(t, "returned")
    /\ ret' = Return(t, "Validate", err)

\* tx.Validate(accounts, utxoSet): validateAccounts, then ValidateUTXO begins
CallValidate(t) ==
    /\ t \in Validators
    /\ Idle(t)
    /\ \E tx \in RaceTxs :
          IF validateAccounts(tx, Accounts) # "nil"
          THEN /\ stack' = Push(t, Frame("Validate", "returned", [tx |-> tx, utxos |-> {}]))
               /\ ret' = Return(t, "Validate", validateAccounts(tx, Accounts))
          ELSE /\ stack' = Push(t, Frame("Validate", "FindUTXOs", [tx |-> tx, utxos |-> {}]))
               /\ ret' = ret
    /\ UNCHANGED UTXOs
    /\ RaceUnchanged

\* utxos, total := utxoSet.FindUTXOs(tx.Sender, tx.Amount+tx.Fee)
ValidateFindUTXOs(t) ==
    /\ InFrame(t, "Validate", "FindUTXOs")
    /\ LET tx == Top(t).arg.tx
       IN  \E utxos \in FindUTXOs(UTXOs, tx.Sender, tx.Amount + tx.Fee) :
              IF SumAmounts(utxos) < tx.Amount + tx.Fee
              THEN ValidateReturn(t, "insufficient UTXOs")
              ELSE /\ stack' = [stack EXCEPT ![t][Len(stack[t])] =
                                   Frame("Validate", "SpendUTXOs", [tx |-> tx, utxos |-> utxos])]
                   /\ ret' = ret
    /\ UNCHANGED UTXOs
    /\ RaceUnchanged

\* utxoSet.SpendUTXOs(utxos)
ValidateSpendUTXOs(t) ==
    /\ InFrame(t, "Validate", "SpendUTXOs")
    /\ UTXOs' = SpendUTXOs(UTXOs, Top(t).arg.utxos)
    /\ stack' = SetTop(t, "AddUTXO")
    /\ ret' = ret
    /\ RaceUnchanged

\* utxoSet.AddUTXO(newUTXO) for the recipient
ValidateAddUTXO(t) ==
    /\ InFrame(t, "Validate", "AddUTXO")
    /\ LET tx == Top(t).arg.tx
           total == SumAmounts(Top(t).arg.utxos)
       IN  /\ UTXOs' = AddUTXO(UTXOs, UTXO(TxHash(tx), 0, tx.Amount, tx.Recipient))
           /\ IF total - (tx.Amount + tx.Fee) > 0
              THEN stack' = SetTop(t, "change") /\ ret' = ret
              ELSE ValidateReturn(t, "nil")
    /\ RaceUnchanged

\* utxoSet.AddUTXO(changeUTXO) for the sender
ValidateAddChange(t) ==
    /\ InFrame(t, "Validate", "change")
    /\ LET tx == Top(t).arg.tx
           total == SumAmounts(Top(t).arg.utxos)
       IN  UTXOs' = AddUTXO(UTXOs, UTXO(TxHash(tx), 1, total - (tx.Amount + tx.Fee), tx.Sender))
    /\ ValidateReturn(t, "nil")
    /\ RaceUnchanged

RaceNext ==
    \E t \in Validators :
        \/ CallValidate(t)
        \/ ValidateFindUTXOs(t)
        \/ ValidateSpendUTXOs(t)
        \/ ValidateAddUTXO(t)
        \/ ValidateAddChange(t)

RaceSpec == RaceInit /\ [][RaceNext]_vars

\* The fee of t's Validate once it has returned nil, else 0
FeeTaken(t) ==
    IF InFrame(t, "Validate", "returned") /\ ret[t].val = "nil" THEN Top(t).arg.tx.Fee ELSE 0

\* C34: two concurrent Validate calls of one sender never use the same
\* unspent output as input, and once both have returned the outputs in the
\* set plus the fees taken are worth no more than the outputs the set held
\* at the start.
C34_NoSharedInput ==
    /\ (\A t \in Validators : ~Idle(t)) =>
           Top("cli").arg.utxos \cap Top("gossip").arg.utxos = {}
    /\ (\A t \in Validators : InFrame(t, "Validate", "returned")) =>
           SumAmounts(UTXOs) + FeeTaken("cli") + FeeTaken("gossip") <= SumAmounts(FundedUTXOs)

(***************************************************************************)
(* The gossip handlers next to an AddBlock call that is in its mining tail *)
(* (as in MineSpec), holding Blockchain.lock since its first line:         *)
(* specification TipRaceSpec.                                              *)
(***************************************************************************)
TipRaceInit ==
    /\ \E now \in 0..MaxMineTime : Blocks = <<GenesisBlock(now)>>
    /\ chainW = "cli" /\ chainHeld = TRUE /\ chainReaders = {}
    /\ stack = [t \in Threads |->
                   IF t = "cli" THEN <<Frame("AddBlock", "NewBlock", <<>>)>> ELSE <<>>]
    /\ ret = [t \in Threads |-> NoRet]
    /\ mine = NoMine
    /\ LedgerFresh

\* AddBlock returns the block or nil; the deferred bc.lock.Unlock() runs.
\* (Kept with the result: what the gossip handler was doing at that moment.)
AddBlockReturn ==
    /\ InFrame("cli", "AddBlock", "NewBlock")
    /\ mine.stage \in {"appended", "rejected", "timeout"}
    /\ chainW = "cli" /\ chainHeld
    /\ chainW' = "none" /\ chainHeld' = FALSE
    /\ stack' = Pop("cli")
    /\ ret' = [ret EXCEPT !["cli"] =
                  [fn |-> "AddBlock", txs |-> <<>>,
                   val |-> IF mine.stage = "appended" THEN "block" ELSE "nil",
                   handler |-> stack["gossip"]]]
    /\ UNCHANGED <<Blocks, chainReaders, mine>>
    /\ UNCHANGED ledgerVars

TipRaceNext ==
    \/ MineNewBlock
    \/ MineRun
    \/ MineTimeout
    \/ MineStore
    \/ MineValidate
    \/ AddBlockReturn
    \/ HandleNewBlock
    \/ HandleResponseBlockchain
    \/ ChainLock("gossip")
    \/ ChainLockAcquire("gossip")
    \/ HandleNewBlockAppend
    \/ HandleResponseBlockchainReplace

TipRaceSpec == TipRaceInit /\ [][TipRaceNext]_vars

\* C35: whatever AddBlock does between a handler's check and its write, the
\* handler appends only a block whose PreviousHash is the hash of the block
\* it comes to follow, replaces the chain only by a strictly longer one, and
\* the chain never gets shorter.
C35_CheckAndWriteAtomic ==
    [][/\ Len(Blocks') >= Len(Blocks)
       /\ (InFrame("gossip", "handleNewBlock", "locked") /\ Blocks' # Blocks) =>
              /\ Top("gossip").arg.PreviousHash = Tip.Hash
              /\ IsValidNewBlock(Top("gossip").arg, Tip)
       /\ (InFrame("gossip", "handleResponseBlockchain", "locked") /\ Blocks' # Blocks) =>
              Len(Blocks') > Len(Blocks)
      ]_vars

\* The handler checked a block while AddBlock was at work under the lock,
\* waited for the lock and appended the block after AddBlock had returned
C35_AppendedAfterAddBlock ==
    /\ ret["cli"].fn = "AddBlock"
    /\ ret["cli"].handler # <<>>
    /\ ret["cli"].handler[1].fn = "handleNewBlock"
    /\ ret["gossip"].fn = "handleNewBlock" /\ ret["gossip"].val = "appended"
    /\ Blocks[Len(Blocks)] = ret["cli"].handler[1].arg
    /\ mine.stage \in {"rejected", "timeout"}

(***************************************************************************)
(* SetMaxBlockSize followed by AddBlock's choice of transactions:          *)
(* specification SizeSpec.  The frame carries the field bc.MaxBlockSize.   *)
(***************************************************************************)
MaxSizedCandidates == 2

\* Sizes a caller may configure: below and above the constant (governance
\* uses 2,000,000)
ConfiguredSizes == {600000, 2000000}

\* NewBlockchain sets the field MaxBlockSize from the constant
SizeInit ==
    /\ \E now \in 0..MaxTime : Blocks = <<GenesisBlock(now)>>
    /\ chainW = "none" /\ chainHeld = FALSE /\ chainReaders = {}
    /\ ret = [t \in Threads |-> NoRet]
    /\ mine = NoMine
    /\ UTXOs = {} /\ pool = EmptyMap /\ Accounts = BuildAccounts
    /\ poolW = "none" /\ poolHeld = FALSE /\ poolReaders = {}
    /\ lastValidate = NoValidate
    /\ \E txs \in ListsUpTo(BuildCandidates, MaxSizedCandidates) :
          /\ \A i, j \in 1..Len(txs) : i # j => txs[i] # txs[j]
          /\ stack = [t \in Threads |->
                         IF t = "cli"
                         THEN <<Frame("SetMaxBlockSize", "call",
                                      [transactions |-> txs, MaxBlockSize |-> MaxBlockSize])>>
                         ELSE <<>>]

SizeUnchanged ==
    /\ UNCHANGED <<UTXOs, Accounts, pool, lastValidate, mine>>
    /\ UNCHANGED lockVars
    /\ UNCHANGED chainVars

\* bc.SetMaxBlockSize(size)
SetMaxBlockSize ==
    /\ InFrame("cli", "SetMaxBlockSize", "call")
    /\ \E size \in ConfiguredSizes :
          stack' = [stack EXCEPT !["cli"][1] =
                       Frame("AddBlock", "transactions", [@.arg EXCEPT !.MaxBlockSize = size])]
    /\ ret' = Return("cli", "SetMaxBlockSize", "set")
    /\ SizeUnchanged

\* AddBlock then puts together validTransactions for NewBlock
SizedAddBlockCollect ==
    /\ InFrame("cli", "AddBlock", "transactions")
    /\ ret' = ReturnTxs("cli", "AddBlock",
                        AddBlockTransactions(Top("cli").arg.transactions, Miner, BlockReward,
                                             Accounts))
    /\ stack' = SetTop("cli", "NewBlock")
    /\ SizeUnchanged

SizeNext ==
    \/ SetMaxBlockSize
    \/ SizedAddBlockCollect

SizeSpec == SizeInit /\ [][SizeNext]_vars

\* C36: after SetMaxBlockSize(s) the transactions of a block AddBlock builds
\* have a total size of at most s.
C36_ConfiguredSizeBounds ==
    InFrame("cli", "AddBlock", "NewBlock") =>
        TotalSize(ret["cli"].txs) <= Top("cli").arg.MaxBlockSize

\* C37: every block the node took from a peer (every block after the first)
\* carries valid proof of work at a difficulty of at least 1, the difficulty
\* the chain before it requires; no block declaring difficulty 0 is in the
\* chain.
C37_PeerBlocksProveWork ==
    \A k \in 2..Len(Blocks) :
        /\ Blocks[k].Difficulty >= 1
        /\ Blocks[k].Difficulty = AdjustDifficulty(SubSeq(Blocks, 1, k - 1))
        /\ Validate(Blocks[k])

(***************************************************************************)
(* Transaction.Hash on two transactions, the mempool key and a signature   *)
(* carried from one to the other: specification HashSpec.                  *)
(***************************************************************************)
HashSenders == {Str(<<"a">>), Str(<<"a", "b">>)}
HashRecipients == {Str(<<"b">>), Str(<<"b", "b">>)}
HashAmounts == {1, 12}
HashFees == {1, 21}

HashTxs ==
    {Tx(s, r, amount, fee, 0) :
        s \in HashSenders, r \in HashRecipients, amount \in HashAmounts, fee \in HashFees}

\* The string Hash digests
HashRecord(tx) == TxHash(tx)[1].pre

HashInit ==
    /\ \E now \in 0..MaxTime : Blocks = <<GenesisBlock(now)>>
    /\ chainW = "none" /\ chainHeld = FALSE /\ chainReaders = {}
    /\ ret = [t \in Threads |-> NoRet]
    /\ mine = NoMine
    /\ LedgerFresh
    /\ \E a \in HashTxs, b \in HashTxs :
          stack = [t \in Threads |->
                      IF t = "cli" THEN <<Frame("Hash", "call", [a |-> a, b |-> b])>>
                      ELSE <<>>]

HashUnchanged ==
    /\ UNCHANGED <<mine>>
    /\ UNCHANGED ledgerVars
    /\ UNCHANGED chainVars

\* txID := tx.Hash() for both, as Mempool.AddTransaction keys them
HashBoth ==
    /\ InFrame("cli", "Hash", "call")
    /\ ret' = [ret EXCEPT !["cli"] =
                  [fn |-> "Hash", val |-> "keys", txs |-> <<>>,
                   a |-> TxHash(Top("cli").arg.a), b |-> TxHash(Top("cli").arg.b)]]
    /\ stack' = SetTop("cli", "Sign")
    /\ HashUnchanged

\* a.Sign(key), then the signature put on b and b.Verify(the key's public key)
SignOneVerifyOther ==
    /\ InFrame("cli", "Hash", "Sign")
    /\ \E priv \in PrivateKeys :
          LET signature == EcdsaSign(priv, Digest(TxHash(Top("cli").arg.a)))
              other == Transaction(Top("cli").arg.b, signature, 0)
          IN  ret' = [ret EXCEPT !["cli"] =
                         [fn |-> "Verify", txs |-> <<>>,
                          val |-> IF TxVerify(other, PublicKeyOf(priv))
                                  THEN "valid" ELSE "invalid"]]
    /\ stack' = SetTop("cli", "returned")
    /\ HashUnchanged

HashNext ==
    \/ HashBoth
    \/ SignOneVerifyOther

HashSpec == HashInit /\ [][HashNext]_vars

\* C38: two transactions that differ in sender, recipient, amount, fee or
\* nonce have different strings digested by Hash, hence different hashes
\* and mempool keys, and a signature made for one does not verify on the
\* other.
C38_EncodingInjective ==
    (~Idle("cli") /\ Top("cli").arg.a # Top("cli").arg.b) =>
        /\ ret["cli"].fn = "Hash" =>
               /\ HashRecord(Top("cli").arg.a) # HashRecord(Top("cli").arg.b)
               /\ ret["cli"].a # ret["cli"].b
        /\ ret["cli"].fn = "Verify" => ret["cli"].val = "invalid"

(***************************************************************************)
(* The token ledger of block.go: specification TokenSpec.  An address      *)
(* without an entry in Token.balances has balance 0 (BalanceOf,            *)
(* LoadOrStore(address, 0)).                                               *)
(***************************************************************************)
MaxSupply == 3       \* calls are made while every balance is within -MaxSupply..MaxSupply

TokenHolders == {Alice, Bob}
TokenAmounts == {-1, 0, 1, 2}

TokenBalances == Top("cli").arg

RECURSIVE SumBalances(_, _)
SumBalances(balances, holders) ==
    IF holders = {} THEN 0
    ELSE LET a == CHOOSE x \in holders : TRUE
         IN  balances[a] + SumBalances(balances, holders \ {a})

\* NewToken
TokenInit ==
    /\ \E now \in 0..MaxTime : Blocks = <<GenesisBlock(now)>>
    /\ chainW = "none" /\ chainHeld = FALSE /\ chainReaders = {}
    /\ ret = [t \in Threads |-> NoRet]
    /\ mine = NoMine
    /\ LedgerFresh
    /\ stack = [t \in Threads |->
                   IF t = "cli" THEN <<Frame("Token", "ready", [a \in TokenHolders |-> 0])>>
                   ELSE <<>>]

TokenUnchanged ==
    /\ UNCHANGED <<mine>>
    /\ UNCHANGED ledgerVars
    /\ UNCHANGED chainVars

TokenReady ==
    /\ InFrame("cli", "Token", "ready")
    /\ \A a \in TokenHolders : TokenBalances[a] \in (0 - MaxSupply)..MaxSupply

TokenReturn(fn, err, balances) ==
    /\ stack' = [stack EXCEPT !["cli"][1].arg = balances]
    /\ ret' = [ret EXCEPT !["cli"] =
                  [fn |-> fn, val |-> err, txs |-> <<>>, before |-> TokenBalances]]

\* t.balances.Store(from, fromBalance-amount); t.balances.Store(to, toBalance+amount)
\* with both balances read before the first Store
TransferStores(balances, from, to, amount) ==
    LET fromBalance == balances[from]
        toBalance == balances[to]
        stored == [balances EXCEPT ![from] = fromBalance - amount]
    IN  [stored EXCEPT ![to] = toBalance + amount]

\* Token.Transfer
TokenTransfer ==
    /\ TokenReady
    /\ \E from \in TokenHolders, to \in TokenHolders, amount \in TokenAmounts :
          IF TokenBalances[from] < amount
          THEN TokenReturn("Transfer", "insufficient balance", TokenBalances)
          ELSE TokenReturn("Transfer", "nil", TransferStores(TokenBalances, from, to, amount))
    /\ TokenUnchanged

\* Token.Mint
TokenMint ==
    /\ TokenReady
    /\ \E address \in TokenHolders, amount \in TokenAmounts :
          TokenReturn("Mint", "nil", [TokenBalances EXCEPT ![address] = @ + amount])
    /\ TokenUnchanged

\* Token.Burn
TokenBurn ==
    /\ TokenReady
    /\ \E address \in TokenHolders, amount \in TokenAmounts :
          IF TokenBalances[address] < amount
          THEN TokenReturn("Burn", "insufficient balance to burn", TokenBalances)
          ELSE TokenReturn("Burn", "nil", [TokenBalances EXCEPT ![address] = @ - amount])
    /\ TokenUnchanged

TokenNext ==
    \/ TokenTransfer
    \/ TokenMint
    \/ TokenBurn

TokenSpec == TokenInit /\ [][TokenNext]_vars

\* C39: Transfer leaves the sum of all balances as it was and makes no
\* balance negative, for every from, to and amount; when it returns the
\* insufficient-balance error no balance has changed.
C39_TransferConserves ==
    ret["cli"].fn = "Transfer" =>
        LET before == ret["cli"].before
        IN  /\ SumBalances(TokenBalances, TokenHolders) = SumBalances(before, TokenHolders)
            /\ (\A a \in TokenHolders : before[a] >= 0) =>
                   \A a \in TokenHolders : TokenBalances[a] >= 0
            /\ ret["cli"].val # "nil" => TokenBalances = before

(***************************************************************************)
(* Governance: one proposal, its votes, TallyVotes and ExecuteProposal     *)
(* under Governance.lock, a sync.Mutex: specification GovSpec.  The record *)
(* mine holds the Governance fields and the chain's blockReward.           *)
(***************************************************************************)
GovOptions == <<Str(<<"2", "5">>), Str(<<"7">>)>>
GovCategories == {"block-reward", "network-upgrade", "other"}
GovQuorums == {1, 3}

\* g.Token.BalanceOf(voter)
VoterBalance(voter) == IF voter = Alice THEN 2 ELSE 1
Voters == {Alice, Bob}

IsDigit(ch) == \E i \in 1..10 : DigitChars[i] = ch.c

RECURSIVE AtoiDigits(_, _)
AtoiDigits(s, acc) ==
    IF s = <<>> THEN acc
    ELSE AtoiDigits(Tail(s), 10 * acc + (CHOOSE i \in 0..9 : DigitChars[i + 1] = s[1].c))

\* strconv.Atoi on the strings used here (no sign)
Atoi(s) ==
    IF s # <<>> /\ \A i \in 1..Len(s) : IsDigit(s[i])
    THEN [err |-> FALSE, val |-> AtoiDigits(s, 0)]
    ELSE [err |-> TRUE, val |-> 0]

RECURSIVE SumVotes(_, _)
SumVotes(votes, options) ==
    IF options = {} THEN 0
    ELSE LET o == CHOOSE x \in options : TRUE
         IN  votes[o] + SumVotes(votes, options \ {o})

\* TallyVotes after the deadline: the possible (error, winner, status); the
\* map of votes is read in any order and the first option with the most
\* votes wins
TallyResults(proposal) ==
    LET votes == proposal.Votes
        totalVotes == SumVotes(votes, DOMAIN votes)
    IN  IF totalVotes < proposal.Quorum
        THEN {[err |-> "quorum not met", winner |-> EmptyStr, Status |-> "FailedQuorum"]}
        ELSE IF DOMAIN votes = {}
        THEN {[err |-> "nil", winner |-> EmptyStr, Status |-> "Approved"]}
        ELSE {[err |-> "nil", winner |-> o, Status |-> "Approved"] :
                 o \in {x \in DOMAIN votes : \A y \in DOMAIN votes : votes[y] <= votes[x]}}

\* NewGovernance and CreateProposal
GovInit ==
    /\ \E now \in 0..MaxTime : Blocks = <<GenesisBlock(now)>>
    /\ chainW = "none" /\ chainHeld = FALSE /\ chainReaders = {}
    /\ stack = [t \in Threads |-> <<>>]
    /\ ret = [t \in Threads |-> NoRet]
    /\ LedgerFresh
    /\ \E category \in GovCategories, quorum \in GovQuorums :
          mine = [stage |-> "governance",
                  Proposal |-> [Options |-> GovOptions, Votes |-> EmptyMap,
                                Status |-> "Pending", Executed |-> FALSE,
                                Category |-> category, Quorum |-> quorum],
                  Voted |-> {},
                  ended |-> FALSE,
                  lock |-> "none",
                  blockReward |-> BlockReward]

GovUnchanged ==
    /\ UNCHANGED ledgerVars
    /\ UNCHANGED chainVars

\* Governance.Vote by a token holder who has not voted, before the deadline
GovVote ==
    /\ Idle("cli") /\ mine.lock = "none"
    /\ ~mine.ended
    /\ \E voter \in Voters \ mine.Voted, optionIndex \in 1..Len(GovOptions) :
          LET option == mine.Proposal.Options[optionIndex]
              votes == mine.Proposal.Votes
          IN  mine' = [mine EXCEPT
                          !.Voted = @ \cup {voter},
                          !.Proposal.Votes =
                              MapPut(votes, option, MapGet(votes, option, 0) + VoterBalance(voter))]
    /\ UNCHANGED <<stack, ret>>
    /\ GovUnchanged

\* time.Now() passes proposal.Deadline
GovDeadline ==
    /\ ~mine.ended
    /\ mine' = [mine EXCEPT !.ended = TRUE]
    /\ UNCHANGED <<stack, ret>>
    /\ GovUnchanged

CallTallyVotes ==
    /\ Idle("cli")
    /\ stack' = Push("cli", Frame("TallyVotes", "Lock", <<>>))
    /\ UNCHANGED <<mine, ret>>
    /\ GovUnchanged

CallExecuteProposal ==
    /\ Idle("cli")
    /\ stack' = Push("cli", Frame("ExecuteProposal", "Lock", <<>>))
    /\ UNCHANGED <<mine, ret>>
    /\ GovUnchanged

\* g.lock.Lock(): a sync.Mutex, free or not, whoever holds it
GovLock ==
    /\ ~Idle("cli") /\ Top("cli").at = "Lock"
    /\ mine.lock = "none"
    /\ mine' = [mine EXCEPT !.lock = "cli"]
    /\ stack' = SetTop("cli", "locked")
    /\ UNCHANGED ret
    /\ GovUnchanged

\* ExecuteProposal under the lock, up to the call made for the category
ExecuteProposalBody ==
    /\ InFrame("cli", "ExecuteProposal", "locked")
    /\ LET proposal == mine.Proposal
           Fail(err) == /\ ret' = Return("cli", "ExecuteProposal", err)
                        /\ stack' = Pop("cli")
                        /\ mine' = [mine EXCEPT !.lock = "none"]
       IN  IF proposal.Executed THEN Fail("proposal already executed")
           ELSE IF proposal.Status # "Approved" THEN Fail("proposal not approved")
           ELSE CASE proposal.Category = "network-upgrade" ->
                       /\ ret' = Return("cli", "ExecuteProposal", "nil")
                       /\ stack' = Pop("cli")
                       /\ mine' = [mine EXCEPT !.lock = "none", !.Proposal.Executed = TRUE]
                  [] proposal.Category = "block-reward" ->
                       /\ stack' = PushFrom("cli", "executeBlockRewardChange",
                                            Frame("TallyVotes", "Lock", <<>>))
                       /\ UNCHANGED <<mine, ret>>
                  [] OTHER -> Fail("unknown proposal action")
    /\ GovUnchanged

\* TallyVotes under the lock, to its return.  Called by
\* executeBlockRewardChange it is followed by the rest of that function and
\* of ExecuteProposal: Atoi, SetBlockReward, Executed = true, return nil.
TallyVotesReturn ==
    /\ InFrame("cli", "TallyVotes", "locked")
    /\ \E r \in IF mine.ended THEN TallyResults(mine.Proposal)
                ELSE {[err |-> "voting period has not ended", winner |-> EmptyStr,
                       Status |-> mine.Proposal.Status]} :
          IF Len(stack["cli"]) = 1
          THEN /\ mine' = [mine EXCEPT !.lock = "none", !.Proposal.Status = r.Status]
               /\ ret' = [ret EXCEPT !["cli"] =
                             [fn |-> "TallyVotes", val |-> r.err, txs |-> <<>>,
                              winner |-> r.winner]]
               /\ stack' = Pop("cli")
          ELSE LET newReward == Atoi(r.winner)
               IN  /\ mine' = [mine EXCEPT
                                  !.lock = "none",
                                  !.Proposal.Status = r.Status,
                                  !.Proposal.Executed = TRUE,
                                  !.blockReward = IF r.err = "nil" /\ ~newReward.err
                                                  THEN newReward.val ELSE @]
                   /\ ret' = Return("cli", "ExecuteProposal", "nil")
                   /\ stack' = [stack EXCEPT !["cli"] = <<>>]
    /\ GovUnchanged

\* The steps of a call in progress
GovStep ==
    \/ GovLock
    \/ ExecuteProposalBody
    \/ TallyVotesReturn

GovNext ==
    \/ GovVote
    \/ GovDeadline
    \/ CallTallyVotes
    \/ CallExecuteProposal
    \/ GovStep

GovSpec == GovInit /\ [][GovNext]_vars

\* A goroutine that can run does run; votes, the deadline and calls need not come
FairGovSpec == GovSpec /\ WF_vars(GovStep)

\* C40: ExecuteProposal on an approved, not yet executed block-reward
\* proposal returns nil with the proposal marked executed and the chain's
\* block reward set to the value of the winning option; on an executed
\* proposal it returns the already-executed error and changes nothing.
C40_ExecutedOnce ==
    /\ [](( /\ InFrame("cli", "ExecuteProposal", "Lock")
            /\ mine.Proposal.Status = "Approved"
            /\ ~mine.Proposal.Executed
            /\ mine.Proposal.Category = "block-reward" ) =>
          <>( /\ ret["cli"].fn = "ExecuteProposal" /\ ret["cli"].val = "nil"
              /\ mine.Proposal.Executed
              /\ \E r \in TallyResults(mine.Proposal) :
                    mine.blockReward = Atoi(r.winner).val ))
    /\ [][(InFrame("cli", "ExecuteProposal", "locked") /\ mine.Proposal.Executed) =>
              /\ ret'["cli"].val = "proposal already executed"
              /\ mine'.Proposal = mine.Proposal
              /\ mine'.blockReward = mine.blockReward]_vars

====
